---- MODULE Spec2Model ----
(***************************************************************************)
(* A model of the amora-sdk stealth-address library (sdk/src/crypto.ts,    *)
(* keys.ts, stealth.ts, viewing-key.ts, contracts.ts) and of the Amora     *)
(* registry contract (contracts/src/amora.cairo).                          *)
(*                                                                         *)
(* The STARK curve y^2 = x^3 + ALPHA*x + BETA over GF(FIELD_PRIME) is      *)
(* replaced by the smallest curve of the same shape: ALPHA = 1, a group of *)
(* prime order CURVE_ORDER < FIELD_PRIME (cofactor 1), BETA a quadratic    *)
(* non-residue (no point has x = 0), FIELD_PRIME = 2 mod 3 (cubing is a    *)
(* permutation of the field, as the Poseidon S-box needs) and a generator  *)
(* with odd y.  All curve arithmetic is computed, none of it is assumed.   *)
(*                                                                         *)
(* A thrown exception is the value Err (for numbers), ErrPoint (for curve  *)
(* points), ErrStr (for strings) or ScanErr (for scan results).            *)
(***************************************************************************)
EXTENDS Integers, Sequences, FiniteSets, TLC

\* ------------------------------------------------------------------------
\* Curve constants (crypto.ts 15-22, values of @scure/starknet's CURVE)
\* ------------------------------------------------------------------------
FIELD_PRIME == 23

CURVE_ORDER == 19

ALPHA == 1

BETA == 19

\* the generator ProjectivePoint.BASE: a point of odd y, as on the STARK curve
BASE == <<2, 11>>

\* ProjectivePoint.ZERO; its affine form is (0, 0)
ZERO == <<0, 0>>

\* width of the view tag: the code masks the hash with 0xff (8 of 251 bits)
VIEW_TAG_MODULUS == 4

Err == -1

ErrPoint == <<-1, -1>>

Felts == 0 .. (FIELD_PRIME - 1)

Scalars == 1 .. (CURVE_ORDER - 1)

\* ------------------------------------------------------------------------
\* Field arithmetic CURVE.Fp
\* ------------------------------------------------------------------------
FpAdd(a, b) == (a + b) % FIELD_PRIME

FpSub(a, b) == (a - b) % FIELD_PRIME

FpMul(a, b) == (a * b) % FIELD_PRIME

FpNeg(a) == (FIELD_PRIME - a) % FIELD_PRIME

FpInv(a) == CHOOSE i \in 1 .. (FIELD_PRIME - 1) : (a * i) % FIELD_PRIME = 1

\* Fp.sqrt throws when n is not a square; which of the two roots it returns
\* is fixed by the library, recoverPoint does not depend on it
FpSqrt(n) ==
  IF \E y \in Felts : (y * y) % FIELD_PRIME = n
  THEN CHOOSE y \in Felts : (y * y) % FIELD_PRIME = n
  ELSE Err

\* ------------------------------------------------------------------------
\* Group law of ProjectivePoint, on affine coordinates
\* ------------------------------------------------------------------------
\* the third point of the line of slope l through p and q, mirrored
ThirdPoint(p, q, l) ==
  LET Mirrored(x) == <<x, FpSub(FpMul(l, FpSub(p[1], x)), p[2])>>
  IN  Mirrored(FpSub(FpSub(FpMul(l, l), p[1]), q[1]))

PointDouble(p) ==
  IF p = ZERO \/ p[2] = 0 THEN ZERO
  ELSE ThirdPoint(p, p, FpMul(FpAdd(FpMul(3, FpMul(p[1], p[1])), ALPHA), FpInv(FpMul(2, p[2]))))

PointAddAffine(p, q) ==
  IF p = ZERO THEN q
  ELSE IF q = ZERO THEN p
  ELSE IF p[1] = q[1] THEN (IF p[2] = q[2] THEN PointDouble(p) ELSE ZERO)
  ELSE ThirdPoint(p, q, FpMul(FpSub(q[2], p[2]), FpInv(FpSub(q[1], p[1]))))

RECURSIVE DoubleAndAdd(_, _)
DoubleAndAdd(p, k) ==
  IF k = 0 THEN ZERO
  ELSE LET AddBit(h) == IF k % 2 = 1 THEN PointAddAffine(h, p) ELSE h
       IN  AddBit(PointDouble(DoubleAndAdd(p, k \div 2)))

\* the points of the group other than ZERO, and their multiples, computed once
CurvePoints == {DoubleAndAdd(BASE, k) : k \in Scalars}

Multiples == [p \in CurvePoints |-> [k \in Scalars |-> DoubleAndAdd(p, k)]]

\* point.multiply(scalar): the library rejects a scalar outside [1, n-1]
Multiply(p, scalar) ==
  IF p = ErrPoint \/ scalar < 1 \/ scalar >= CURVE_ORDER THEN ErrPoint
  ELSE IF p \in CurvePoints THEN Multiples[p][scalar]
  ELSE DoubleAndAdd(p, scalar)

\* p1.add(p2)
Add(p, q) == IF p = ErrPoint \/ q = ErrPoint THEN ErrPoint ELSE PointAddAffine(p, q)

\* ProjectivePoint.fromPrivateKey(hex): the key must be in [1, n-1]
FromPrivateKey(privateKey) == Multiply(BASE, privateKey)

\* point.x, an error staying an error
XOf(p) == IF p = ErrPoint THEN Err ELSE p[1]

\* ------------------------------------------------------------------------
\* crypto.ts
\* ------------------------------------------------------------------------
\* normalizePrivateKey with the parity test inverted
normalizePrivateKeyOddY(privateKey) ==
  LET Normalized(point) ==
        IF point = ErrPoint THEN Err
        ELSE IF point[2] % 2 = 0 THEN CURVE_ORDER - privateKey
        ELSE privateKey
  IN  Normalized(FromPrivateKey(privateKey))

\* normalizePrivateKey: N - k when y(k*G) is odd, else k
normalizePrivateKey(privateKey) ==
  LET Normalized(point) ==
        IF point = ErrPoint THEN Err
        ELSE IF point[2] % 2 # 0 THEN CURVE_ORDER - privateKey
        ELSE privateKey
  IN  Normalized(FromPrivateKey(privateKey))

\* generatePrivateKey, rawKey being what utils.randomPrivateKey() returned
generatePrivateKey(rawKey) == normalizePrivateKey(rawKey)

\* derivePublicKey: x-coordinate of privateKey * G (getPublicKey, prefix byte dropped)
derivePublicKey(privateKey) == XOf(FromPrivateKey(privateKey))

\* recoverPoint: the root of x^3 + ALPHA*x + BETA with even y
recoverPoint(x) ==
  IF x = Err THEN ErrPoint
  ELSE LET x3 == FpMul(FpMul(x % FIELD_PRIME, x % FIELD_PRIME), x % FIELD_PRIME)
           ax == FpMul(ALPHA, x % FIELD_PRIME)
           ySquared == FpAdd(FpAdd(x3, ax), BETA)
           y == FpSqrt(ySquared)
       IN  IF y = Err THEN ErrPoint
           ELSE <<x, IF y % 2 # 0 THEN FpNeg(y) ELSE y>>

\* scalarMultiply multiplying the generator, not the recovered point
scalarMultiplyOfBase(scalar, pointX) ==
  IF recoverPoint(pointX) = ErrPoint THEN Err ELSE XOf(Multiply(BASE, scalar))

scalarMultiply(scalar, pointX) == XOf(Multiply(recoverPoint(pointX), scalar))

pointAdd(point1X, point2X) == XOf(Add(recoverPoint(point1X), recoverPoint(point2X)))

scalarBaseMult(scalar) == XOf(Multiply(BASE, scalar))

\* the Hades permutation, reduced to one cubing round on a one-felt state
PoseidonPermutation(x) ==
  LET t == (x + 5) % FIELD_PRIME IN (FpMul(FpMul(t, t), t) + 3) % FIELD_PRIME

\* poseidonHashMany: absorb the inputs, then the padding felt 1
RECURSIVE PoseidonAbsorb(_, _)
PoseidonAbsorb(state, inputs) ==
  IF inputs = <<>> THEN state
  ELSE PoseidonAbsorb(PoseidonPermutation((state + Head(inputs)) % FIELD_PRIME), Tail(inputs))

poseidonHash(inputs) ==
  IF \E i \in DOMAIN inputs : inputs[i] = Err THEN Err
  ELSE PoseidonAbsorb(0, inputs \o <<1>>)

computeViewTag(sharedSecret) ==
  LET hash == poseidonHash(<<sharedSecret>>)
  IN  IF hash = Err THEN Err ELSE hash % VIEW_TAG_MODULUS

computeStealthPrivateKey(spendingPrivateKey, sharedSecret) ==
  LET hashValue == poseidonHash(<<sharedSecret>>)
  IN  IF hashValue = Err \/ spendingPrivateKey = Err THEN Err
      ELSE (spendingPrivateKey + hashValue) % CURVE_ORDER

computeStealthPublicKey(spendingPubKey, sharedSecret) ==
  LET spendingPoint == recoverPoint(spendingPubKey)
      hashValue == poseidonHash(<<sharedSecret>>)
      hashPoint == IF hashValue = Err THEN ErrPoint ELSE Multiply(BASE, hashValue)
      stealthPoint == Add(spendingPoint, hashPoint)
  IN  XOf(stealthPoint)

ecdh(privateKey, publicKey) == scalarMultiply(privateKey, publicKey)

\* ------------------------------------------------------------------------
\* keys.ts
\* ------------------------------------------------------------------------
generateKeyPair(rawKey) ==
  LET privateKey == generatePrivateKey(rawKey)
  IN  [privateKey |-> privateKey, publicKey |-> derivePublicKey(privateKey)]

generateKeys(rawSpending, rawViewing) ==
  [spendingKey |-> generateKeyPair(rawSpending), viewingKey |-> generateKeyPair(rawViewing)]

keyPairFromPrivateKey(privateKey) ==
  [privateKey |-> privateKey, publicKey |-> derivePublicKey(privateKey)]

keysFromPrivateKeys(spendingPrivateKey, viewingPrivateKey) ==
  [spendingKey |-> keyPairFromPrivateKey(spendingPrivateKey),
   viewingKey |-> keyPairFromPrivateKey(viewingPrivateKey)]

\* ------------------------------------------------------------------------
\* Strings are sequences of one-character strings
\* ------------------------------------------------------------------------
ErrStr == <<"Error">>

HexDigits == <<"0", "1", "2", "3", "4", "5", "6", "7", "8", "9", "a", "b", "c", "d", "e", "f">>

UpperHexDigits == <<"0", "1", "2", "3", "4", "5", "6", "7", "8", "9", "A", "B", "C", "D", "E", "F">>

\* n.toString(16) of a non-negative bigint
RECURSIVE ToString16(_)
ToString16(n) ==
  IF n < 16 THEN <<HexDigits[n + 1]>>
  ELSE Append(ToString16(n \div 16), HexDigits[(n % 16) + 1])

\* String.prototype.toLowerCase on the characters an address can hold
LowerChar(c) ==
  IF c = "X" THEN "x"
  ELSE IF \E i \in 11 .. 16 : UpperHexDigits[i] = c
       THEN HexDigits[CHOOSE i \in 11 .. 16 : UpperHexDigits[i] = c]
       ELSE c

toLowerCase(str) == [i \in 1 .. Len(str) |-> LowerChar(str[i])]

\* value of one hex digit, lower or upper case; Err for any other character
HexValue(c) ==
  IF \E i \in 1 .. 16 : HexDigits[i] = c THEN (CHOOSE i \in 1 .. 16 : HexDigits[i] = c) - 1
  ELSE IF \E i \in 11 .. 16 : UpperHexDigits[i] = c
       THEN (CHOOSE i \in 11 .. 16 : UpperHexDigits[i] = c) - 1
       ELSE Err

RECURSIVE HexDigitsValue(_, _)
HexDigitsValue(acc, str) ==
  IF str = <<>> THEN acc
  ELSE IF HexValue(Head(str)) = Err THEN Err
  ELSE HexDigitsValue(acc * 16 + HexValue(Head(str)), Tail(str))

RECURSIVE DecDigitsValue(_, _)
DecDigitsValue(acc, str) ==
  IF str = <<>> THEN acc
  ELSE IF HexValue(Head(str)) = Err \/ HexValue(Head(str)) > 9 THEN Err
  ELSE DecDigitsValue(acc * 10 + HexValue(Head(str)), Tail(str))

\* BigInt(string): white space around the literal is dropped, "" is 0,
\* "0x"/"0X" introduces hex digits (at least one), otherwise decimal digits;
\* anything else is a SyntaxError
BigIntOfString(str) ==
  LET RECURSIVE TrimStart(_)
      TrimStart(t) == IF t # <<>> /\ Head(t) = " " THEN TrimStart(Tail(t)) ELSE t
      RECURSIVE TrimEnd(_)
      TrimEnd(t) ==
        IF t # <<>> /\ t[Len(t)] = " " THEN TrimEnd(SubSeq(t, 1, Len(t) - 1)) ELSE t
      Literal(t) ==
        IF t = <<>> THEN 0
        ELSE IF Len(t) >= 2 /\ t[1] = "0" /\ t[2] \in {"x", "X"}
             THEN (IF Len(t) = 2 THEN Err ELSE HexDigitsValue(0, SubSeq(t, 3, Len(t))))
        ELSE DecDigitsValue(0, t)
  IN  IF str = ErrStr THEN Err ELSE Literal(TrimEnd(TrimStart(str)))

\* str.split(":")
RECURSIVE Split(_, _)
Split(str, sep) ==
  IF \A i \in 1 .. Len(str) : str[i] # sep THEN <<str>>
  ELSE LET i == CHOOSE j \in 1 .. Len(str) :
                  str[j] = sep /\ \A l \in 1 .. (j - 1) : str[l] # sep
       IN  <<SubSeq(str, 1, i - 1)>> \o Split(SubSeq(str, i + 1, Len(str)), sep)

\* str.replace(/^0x0*/, "")
RECURSIVE StripLeadingZeros(_)
StripLeadingZeros(str) ==
  IF str # <<>> /\ Head(str) = "0" THEN StripLeadingZeros(Tail(str)) ELSE str

ReplaceLeading0x0s(str) ==
  IF Len(str) >= 2 /\ str[1] = "0" /\ str[2] = "x"
  THEN StripLeadingZeros(SubSeq(str, 3, Len(str)))
  ELSE str

\* ------------------------------------------------------------------------
\* stealth.ts
\* ------------------------------------------------------------------------
\* starknet.js hash.calculateContractAddressFromHash: the chained Pedersen
\* hash of (prefix, deployer, salt, class hash, hash of the calldata) is
\* collision free on the model's inputs; the result is toHex of the number
ContractAddressNumber(salt, classHash, constructorCalldata, deployerAddress) ==
  ((deployerAddress * 4 + classHash) * FIELD_PRIME + salt) * FIELD_PRIME
    + constructorCalldata[1] + 1

calculateContractAddressFromHash(salt, classHash, constructorCalldata, deployerAddress) ==
  <<"0", "x">> \o
    ToString16(ContractAddressNumber(salt, classHash, constructorCalldata, deployerAddress))

\* computeStealthContractAddress(publicKey, classHash) with the salt defaulted
computeStealthContractAddress(publicKey, classHash) ==
  IF publicKey = Err THEN ErrStr
  ELSE calculateContractAddressFromHash(publicKey, classHash, <<publicKey>>, 0)

\* normalizeAddress without toLowerCase
normalizeAddressKeepingCase(address) ==
  IF address = ErrStr THEN ErrStr
  ELSE <<"0", "x">> \o ReplaceLeading0x0s(address)

normalizeAddress(address) ==
  IF address = ErrStr THEN ErrStr
  ELSE <<"0", "x">> \o ReplaceLeading0x0s(toLowerCase(address))

ErrResult == [error |-> TRUE]

\* generateStealthAddressWithKey taking the shared secret from the spending key
generateStealthAddressWithSpendingKey(metaAddress, ephemeralPrivateKey, accountClassHash) ==
  LET Result(ephemeralPubKey, sharedSecret, stealthPubKey) ==
        IF ephemeralPubKey = Err \/ sharedSecret = Err \/ stealthPubKey = Err
        THEN ErrResult
        ELSE [stealthAddress |-> computeStealthContractAddress(stealthPubKey, accountClassHash),
              stealthPubKey |-> stealthPubKey,
              ephemeralPubKey |-> ephemeralPubKey, viewTag |-> computeViewTag(sharedSecret)]
      WithSecret(sharedSecret) ==
        Result(derivePublicKey(ephemeralPrivateKey), sharedSecret,
               computeStealthPublicKey(metaAddress.spendingPubKey, sharedSecret))
  IN  WithSecret(ecdh(ephemeralPrivateKey, metaAddress.spendingPubKey))

\* generateStealthAddressWithKey; generateStealthAddress calls it with a
\* fresh generatePrivateKey()
generateStealthAddressWithKey(metaAddress, ephemeralPrivateKey, accountClassHash) ==
  LET Result(ephemeralPubKey, sharedSecret, stealthPubKey) ==
        IF ephemeralPubKey = Err \/ sharedSecret = Err \/ stealthPubKey = Err
        THEN ErrResult
        ELSE [stealthAddress |-> computeStealthContractAddress(stealthPubKey, accountClassHash),
              stealthPubKey |-> stealthPubKey,
              ephemeralPubKey |-> ephemeralPubKey, viewTag |-> computeViewTag(sharedSecret)]
      WithSecret(sharedSecret) ==
        Result(derivePublicKey(ephemeralPrivateKey), sharedSecret,
               computeStealthPublicKey(metaAddress.spendingPubKey, sharedSecret))
  IN  WithSecret(ecdh(ephemeralPrivateKey, metaAddress.viewingPubKey))

generateStealthAddress(metaAddress, accountClassHash, rawKey) ==
  generateStealthAddressWithKey(metaAddress, generatePrivateKey(rawKey), accountClassHash)

\* results of the per-announcement functions: null, a thrown error, or a value
Null == [null |-> TRUE]

\* checkAnnouncementViewTag returns the shared secret, null (-2) or throws (Err)
NullSecret == -2

\* checkAnnouncementViewTag taking a failed point recovery for "no match"
checkAnnouncementViewTagSkipping(announcement, viewingPrivateKey) ==
  LET Check(sharedSecret) ==
        IF sharedSecret = Err THEN NullSecret
        ELSE IF computeViewTag(sharedSecret) # announcement.viewTag THEN NullSecret
        ELSE sharedSecret
  IN  Check(ecdh(viewingPrivateKey, announcement.ephemeralPubKey))

checkAnnouncementViewTag(announcement, viewingPrivateKey) ==
  LET Check(sharedSecret) ==
        IF sharedSecret = Err THEN Err
        ELSE IF computeViewTag(sharedSecret) # announcement.viewTag THEN NullSecret
        ELSE sharedSecret
  IN  Check(ecdh(viewingPrivateKey, announcement.ephemeralPubKey))

\* verifyAndComputeStealthKey accepting on the view tag alone
verifyViewTagOnly(announcement, viewingPrivateKey, spendingPublicKey, spendingPrivateKey, accountClassHash) ==
  LET Verify(sharedSecret, stealthPubKey) ==
        IF sharedSecret = Err THEN ErrResult
        ELSE IF sharedSecret = NullSecret THEN Null
        ELSE IF stealthPubKey = Err THEN ErrResult
        ELSE [announcement |-> announcement, sharedSecret |-> sharedSecret,
              stealthPrivateKey |-> computeStealthPrivateKey(spendingPrivateKey, sharedSecret),
              stealthPubKey |-> stealthPubKey]
      WithSecret(sharedSecret) ==
        Verify(sharedSecret, computeStealthPublicKey(spendingPublicKey, sharedSecret))
  IN  WithSecret(checkAnnouncementViewTag(announcement, viewingPrivateKey))

verifyAndComputeStealthKey(announcement, viewingPrivateKey, spendingPublicKey, spendingPrivateKey, accountClassHash) ==
  LET Verify(sharedSecret, stealthPubKey) ==
        IF sharedSecret = Err THEN ErrResult
        ELSE IF sharedSecret = NullSecret THEN Null
        ELSE IF stealthPubKey = Err THEN ErrResult
        ELSE IF normalizeAddress(computeStealthContractAddress(stealthPubKey, accountClassHash))
                  # normalizeAddress(announcement.stealthAddress)
             THEN Null
        ELSE [announcement |-> announcement, sharedSecret |-> sharedSecret,
              stealthPrivateKey |-> computeStealthPrivateKey(spendingPrivateKey, sharedSecret),
              stealthPubKey |-> stealthPubKey]
      WithSecret(sharedSecret) ==
        Verify(sharedSecret, computeStealthPublicKey(spendingPublicKey, sharedSecret))
  IN  WithSecret(checkAnnouncementViewTag(announcement, viewingPrivateKey))

ScanErr == <<ErrResult>>

\* scanAnnouncements: the loop, payments pushed in input order; a throw of
\* verifyAndComputeStealthKey ends the scan
RECURSIVE ScanLoop(_, _, _, _, _, _)
ScanLoop(payments, announcements, viewingPrivateKey, spendingPublicKey, spendingPrivateKey, accountClassHash) ==
  IF announcements = <<>> THEN payments
  ELSE LET Push(payment) ==
             IF payment = ErrResult THEN ScanErr
             ELSE ScanLoop(IF payment # Null THEN Append(payments, payment) ELSE payments,
                           Tail(announcements), viewingPrivateKey, spendingPublicKey,
                           spendingPrivateKey, accountClassHash)
       IN  Push(verifyAndComputeStealthKey(Head(announcements), viewingPrivateKey,
                                           spendingPublicKey, spendingPrivateKey,
                                           accountClassHash))

\* scanAnnouncements putting each payment in front of the earlier ones
scanAnnouncementsNewestFirst(announcements, viewingPrivateKey, spendingPublicKey, spendingPrivateKey, accountClassHash) ==
  LET payments == ScanLoop(<<>>, announcements, viewingPrivateKey, spendingPublicKey,
                           spendingPrivateKey, accountClassHash)
  IN  [i \in 1 .. Len(payments) |-> payments[Len(payments) + 1 - i]]

scanAnnouncements(announcements, viewingPrivateKey, spendingPublicKey, spendingPrivateKey, accountClassHash) ==
  ScanLoop(<<>>, announcements, viewingPrivateKey, spendingPublicKey,
           spendingPrivateKey, accountClassHash)

\* ------------------------------------------------------------------------
\* meta-address.ts
\* ------------------------------------------------------------------------
META_ADDRESS_PREFIX == <<"s", "t">>

CHAIN_ID == <<"s", "t", "a", "r", "k", "n", "e", "t">>

\* 2n ** 252n, one bit above the field prime
MAX_FELT == 32

Colon == <<":">>

encodeMetaAddressFromPubKeys(spendingPubKey, viewingPubKey) ==
  META_ADDRESS_PREFIX \o Colon \o CHAIN_ID \o Colon
    \o <<"0", "x">> \o ToString16(spendingPubKey) \o Colon
    \o <<"0", "x">> \o ToString16(viewingPubKey)

encodeMetaAddress(keys) ==
  encodeMetaAddressFromPubKeys(keys.spendingKey.publicKey, keys.viewingKey.publicKey)

parseFelt(value) ==
  LET normalized == IF Len(value) >= 2 /\ value[1] = "0" /\ value[2] = "x"
                    THEN value ELSE <<"0", "x">> \o value
      result == BigIntOfString(normalized)
  IN  IF result = Err \/ result >= MAX_FELT \/ result < 0 THEN Err ELSE result

parseMetaAddress(metaAddress) ==
  LET parts == Split(metaAddress, ":")
  IN  IF Len(parts) # 4 THEN ErrResult
      ELSE IF parts[1] # META_ADDRESS_PREFIX THEN ErrResult
      ELSE IF parts[2] # CHAIN_ID THEN ErrResult
      ELSE IF parseFelt(parts[3]) = Err \/ parseFelt(parts[4]) = Err THEN ErrResult
      ELSE [chain |-> parts[2], spendingPubKey |-> parseFelt(parts[3]),
            viewingPubKey |-> parseFelt(parts[4])]

\* ------------------------------------------------------------------------
\* viewing-key.ts
\* ------------------------------------------------------------------------
VIEWING_KEY_PREFIX == <<"v", "k">>

VIEWING_KEY_CHAIN == <<"s", "t", "a", "r", "k", "n", "e", "t">>

exportViewingKey(keys) ==
  VIEWING_KEY_PREFIX \o Colon \o VIEWING_KEY_CHAIN \o Colon
    \o <<"0", "x">> \o ToString16(keys.viewingKey.privateKey) \o Colon
    \o <<"0", "x">> \o ToString16(keys.spendingKey.publicKey)

importViewingKey(viewingKeyStr) ==
  LET parts == Split(viewingKeyStr, ":")
      viewingPrivateKey == BigIntOfString(parts[3])
      spendingPubKey == BigIntOfString(parts[4])
  IN  IF Len(parts) # 4 THEN ErrResult
      ELSE IF parts[1] # VIEWING_KEY_PREFIX THEN ErrResult
      ELSE IF parts[2] # VIEWING_KEY_CHAIN THEN ErrResult
      ELSE IF viewingPrivateKey = Err \/ spendingPubKey = Err THEN ErrResult
      ELSE IF viewingPrivateKey <= 0 THEN ErrResult
      ELSE IF spendingPubKey <= 0 THEN ErrResult
      ELSE [chain |-> parts[2], viewingPrivateKey |-> viewingPrivateKey,
            spendingPubKey |-> spendingPubKey]

isValidViewingKey(viewingKeyStr) == importViewingKey(viewingKeyStr) # ErrResult

\* the iteration without the view tag filter
ViewingKeyStepUnfiltered(announcement, viewingKey, accountClassHash) ==
  LET Match(sharedSecret, stealthPubKey) ==
        IF sharedSecret = Err THEN ErrResult
        ELSE IF stealthPubKey = Err THEN ErrResult
        ELSE IF normalizeAddress(computeStealthContractAddress(stealthPubKey, accountClassHash))
                  # normalizeAddress(announcement.stealthAddress)
             THEN Null
        ELSE [announcement |-> announcement, sharedSecret |-> sharedSecret,
              stealthPubKey |-> stealthPubKey]
      WithSecret(sharedSecret) ==
        Match(sharedSecret, computeStealthPublicKey(viewingKey.spendingPubKey, sharedSecret))
  IN  WithSecret(ecdh(viewingKey.viewingPrivateKey, announcement.ephemeralPubKey))

\* one iteration of the loop of scanWithViewingKey: a match, Null or ErrResult
ViewingKeyStep(announcement, viewingKey, accountClassHash) ==
  LET Match(sharedSecret, stealthPubKey) ==
        IF sharedSecret = Err THEN ErrResult
        ELSE IF computeViewTag(sharedSecret) # announcement.viewTag THEN Null
        ELSE IF stealthPubKey = Err THEN ErrResult
        ELSE IF normalizeAddress(computeStealthContractAddress(stealthPubKey, accountClassHash))
                  # normalizeAddress(announcement.stealthAddress)
             THEN Null
        ELSE [announcement |-> announcement, sharedSecret |-> sharedSecret,
              stealthPubKey |-> stealthPubKey]
      WithSecret(sharedSecret) ==
        Match(sharedSecret, computeStealthPublicKey(viewingKey.spendingPubKey, sharedSecret))
  IN  WithSecret(ecdh(viewingKey.viewingPrivateKey, announcement.ephemeralPubKey))

RECURSIVE ViewingKeyLoop(_, _, _, _)
ViewingKeyLoop(matches, announcements, viewingKey, accountClassHash) ==
  IF announcements = <<>> THEN matches
  ELSE LET Push(match) ==
             IF match = ErrResult THEN ScanErr
             ELSE ViewingKeyLoop(IF match # Null THEN Append(matches, match) ELSE matches,
                                 Tail(announcements), viewingKey, accountClassHash)
       IN  Push(ViewingKeyStep(Head(announcements), viewingKey, accountClassHash))

scanWithViewingKey(announcements, viewingKey, accountClassHash) ==
  IF viewingKey = ErrResult THEN ScanErr
  ELSE ViewingKeyLoop(<<>>, announcements, viewingKey, accountClassHash)

\* ------------------------------------------------------------------------
\* crypto.ts, memo encoding.  A string is the sequence of its code points, a
\* byte a number of 0 .. 255, a felt a natural number
\* ------------------------------------------------------------------------
BYTES_PER_FELT == 3

BOM == 65279

REPLACEMENT_CHARACTER == 65533

\* TextEncoder.encode, one code point: its UTF-8 bytes
Utf8Bytes(cp) ==
  IF cp < 128 THEN <<cp>>
  ELSE IF cp < 2048 THEN <<192 + (cp \div 64), 128 + (cp % 64)>>
  ELSE IF cp < 65536
    THEN <<224 + (cp \div 4096), 128 + ((cp \div 64) % 64), 128 + (cp % 64)>>
  ELSE <<240 + (cp \div 262144), 128 + ((cp \div 4096) % 64),
         128 + ((cp \div 64) % 64), 128 + (cp % 64)>>

RECURSIVE TextEncode(_)
TextEncode(string) ==
  IF string = <<>> THEN <<>> ELSE Utf8Bytes(Head(string)) \o TextEncode(Tail(string))

\* the number of bytes the sequence led by this byte has, 0 for no lead byte
Utf8Length(lead) ==
  IF lead < 128 THEN 1
  ELSE IF lead >= 192 /\ lead < 224 THEN 2
  ELSE IF lead >= 224 /\ lead < 240 THEN 3
  ELSE IF lead >= 240 /\ lead < 248 THEN 4
  ELSE 0

RECURSIVE Utf8Value(_, _)
Utf8Value(continuation, value) ==
  IF continuation = <<>> THEN value
  ELSE Utf8Value(Tail(continuation), value * 64 + (Head(continuation) % 64))

Utf8CodePoint(sequence) ==
  Utf8Value(Tail(sequence),
            CASE Len(sequence) = 1 -> Head(sequence)
              [] Len(sequence) = 2 -> Head(sequence) % 32
              [] Len(sequence) = 3 -> Head(sequence) % 16
              [] OTHER -> Head(sequence) % 8)

\* the UTF-8 decoder: a byte that leads no complete sequence is replaced
RECURSIVE Utf8Decode(_)
Utf8Decode(bytes) ==
  IF bytes = <<>> THEN <<>>
  ELSE LET Take(n) ==
             IF n = 0 \/ n > Len(bytes)
                \/ \E i \in 2 .. n : bytes[i] < 128 \/ bytes[i] >= 192
             THEN <<REPLACEMENT_CHARACTER>> \o Utf8Decode(Tail(bytes))
             ELSE <<Utf8CodePoint(SubSeq(bytes, 1, n))>>
                    \o Utf8Decode(SubSeq(bytes, n + 1, Len(bytes)))
       IN  Take(Utf8Length(Head(bytes)))

\* new TextDecoder().decode: UTF-8, not fatal, ignoreBOM false, so that a
\* byte order mark leading the input is left out of the string
TextDecode(bytes) ==
  LET StripBOM(string) ==
        IF string # <<>> /\ Head(string) = BOM THEN Tail(string) ELSE string
  IN  StripBOM(Utf8Decode(bytes))

\* a chunk packed with its first byte least significant
RECURSIVE PackChunkLittleEndian(_, _)
PackChunkLittleEndian(chunk, value) ==
  IF chunk = <<>> THEN value
  ELSE Head(chunk) + 256 * PackChunkLittleEndian(Tail(chunk), value)

\* value = (value << 8n) | BigInt(byte), over the bytes of a chunk
RECURSIVE PackChunk(_, _)
PackChunk(chunk, value) ==
  IF chunk = <<>> THEN value ELSE PackChunk(Tail(chunk), value * 256 + Head(chunk))

RECURSIVE EncodeChunks(_)
EncodeChunks(bytes) ==
  IF bytes = <<>> THEN <<>>
  ELSE IF Len(bytes) <= BYTES_PER_FELT THEN <<PackChunk(bytes, 0)>>
  ELSE <<PackChunk(SubSeq(bytes, 1, BYTES_PER_FELT), 0)>>
         \o EncodeChunks(SubSeq(bytes, BYTES_PER_FELT + 1, Len(bytes)))

encodeMemo(memo) ==
  LET Encode(bytes) ==
        IF Len(bytes) = 0 THEN <<0>> ELSE <<Len(bytes)>> \o EncodeChunks(bytes)
  IN  Encode(TextEncode(memo))

\* the bytes of one felt: byte j is (value >> ((chunkSize - 1 - j) * 8)) & 0xff
UnpackChunk(value, chunkSize) ==
  [j \in 1 .. chunkSize |-> (value \div (256 ^ (chunkSize - j))) % 256]

RECURSIVE DecodeLoop(_, _, _, _)
DecodeLoop(felts, i, bytes, totalBytes) ==
  IF i > Len(felts) \/ Len(bytes) >= totalBytes
  THEN bytes \o [k \in 1 .. (totalBytes - Len(bytes)) |-> 0]
  ELSE LET Write(chunkSize) ==
             DecodeLoop(felts, i + 1, bytes \o UnpackChunk(felts[i], chunkSize), totalBytes)
       IN  Write(IF BYTES_PER_FELT < totalBytes - Len(bytes)
                 THEN BYTES_PER_FELT ELSE totalBytes - Len(bytes))

decodeMemo(felts) ==
  IF Len(felts) = 0 THEN ErrStr
  ELSE IF felts[1] = 0 THEN <<>>
  ELSE TextDecode(DecodeLoop(felts, 2, <<>>, felts[1]))

\* ------------------------------------------------------------------------
\* contracts/src/amora.cairo.  A felt252 or ContractAddress is a natural
\* number; the event log keeps each event as the RPC node returns it, keys
\* and data as hex strings
\* ------------------------------------------------------------------------
FeltToHex(n) == <<"0", "x">> \o ToString16(n)

\* a panic: the transaction is reverted, no storage is written, no event emitted
Reverted == [reverted |-> TRUE]

\* account addresses of the two recipients and of a sender
AccountOf == [A |-> 5, B |-> 6, sender |-> 9]

ContractAddresses == {AccountOf[who] : who \in DOMAIN AccountOf}

\* Storage: both maps read 0 for an address never written
EmptyStorage ==
  [spending_keys |-> [registrant \in ContractAddresses |-> 0],
   viewing_keys |-> [registrant \in ContractAddresses |-> 0]]

\* register_keys without the assert on viewing_pubkey
register_keys_any_viewing(self, caller, spending_pubkey, viewing_pubkey) ==
  IF spending_pubkey = 0 THEN Reverted
  ELSE [storage |-> [spending_keys |-> [self.spending_keys EXCEPT ![caller] = spending_pubkey],
                     viewing_keys |-> [self.viewing_keys EXCEPT ![caller] = viewing_pubkey]],
        emitted |-> [name |-> "MetaAddressRegistered",
                     keys |-> <<FeltToHex(caller)>>,
                     data |-> <<FeltToHex(spending_pubkey), FeltToHex(viewing_pubkey)>>]]

\* register_keys keeping the entry of a caller that is registered already
register_keys_once(self, caller, spending_pubkey, viewing_pubkey) ==
  IF spending_pubkey = 0 \/ viewing_pubkey = 0 THEN Reverted
  ELSE [storage |-> IF self.spending_keys[caller] # 0 THEN self
                    ELSE [spending_keys |-> [self.spending_keys EXCEPT ![caller] = spending_pubkey],
                          viewing_keys |-> [self.viewing_keys EXCEPT ![caller] = viewing_pubkey]],
        emitted |-> [name |-> "MetaAddressRegistered",
                     keys |-> <<FeltToHex(caller)>>,
                     data |-> <<FeltToHex(spending_pubkey), FeltToHex(viewing_pubkey)>>]]

\* register_keys without the assert on spending_pubkey
register_keys_any_spending(self, caller, spending_pubkey, viewing_pubkey) ==
  IF viewing_pubkey = 0 THEN Reverted
  ELSE [storage |-> [spending_keys |-> [self.spending_keys EXCEPT ![caller] = spending_pubkey],
                     viewing_keys |-> [self.viewing_keys EXCEPT ![caller] = viewing_pubkey]],
        emitted |-> [name |-> "MetaAddressRegistered",
                     keys |-> <<FeltToHex(caller)>>,
                     data |-> <<FeltToHex(spending_pubkey), FeltToHex(viewing_pubkey)>>]]

\* register_keys: the new storage and the event emitted, or a panic
register_keys(self, caller, spending_pubkey, viewing_pubkey) ==
  IF spending_pubkey = 0 \/ viewing_pubkey = 0 THEN Reverted
  ELSE [storage |-> [spending_keys |-> [self.spending_keys EXCEPT ![caller] = spending_pubkey],
                     viewing_keys |-> [self.viewing_keys EXCEPT ![caller] = viewing_pubkey]],
        emitted |-> [name |-> "MetaAddressRegistered",
                     keys |-> <<FeltToHex(caller)>>,
                     data |-> <<FeltToHex(spending_pubkey), FeltToHex(viewing_pubkey)>>]]

get_meta_address(self, registrant) ==
  <<self.spending_keys[registrant], self.viewing_keys[registrant]>>

is_registered(self, registrant) == self.spending_keys[registrant] # 0

\* announce: stealth_address is a #[key] field and goes to the event's keys;
\* the data are caller, ephemeral_pubkey, view_tag and the metadata span
\* (its length, then its elements); a view_tag that is no u8 fails to deserialize
announce(self, caller, stealth_address, ephemeral_pubkey, view_tag, metadata) ==
  IF stealth_address = 0 \/ ephemeral_pubkey = 0 \/ view_tag >= VIEW_TAG_MODULUS THEN Reverted
  ELSE [storage |-> self,
        emitted |-> [name |-> "Announcement",
                     keys |-> <<FeltToHex(stealth_address)>>,
                     data |-> <<FeltToHex(caller), FeltToHex(ephemeral_pubkey),
                                FeltToHex(view_tag), FeltToHex(Len(metadata))>>
                              \o [i \in 1 .. Len(metadata) |-> FeltToHex(metadata[i])]]]

\* ------------------------------------------------------------------------
\* contracts.ts: class Amora
\* ------------------------------------------------------------------------
\* the class hash the SDK is configured with (AmoraConfig.accountClassHash)
ACCOUNT_CLASS_HASH == 1

\* config.amoraAddress and the token a sender transfers
AMORA_ADDRESS == <<"0", "x", "a">>

TOKEN_ADDRESS == <<"0", "x", "7">>

\* 1n << 128n, the width of the halves of a u256
UINT128 == 16

\* provider.getEvents chunk_size
CHUNK_SIZE == 2

\* n.toString() of a non-negative bigint
RECURSIVE ToString10(_)
ToString10(n) ==
  IF n < 10 THEN <<HexDigits[n + 1]>>
  ELSE Append(ToString10(n \div 10), HexDigits[(n % 10) + 1])

\* CallData.compile on one string or number: the felt it denotes
CompileFelt(value) == BigIntOfString(value)

register(keys) ==
  LET spendingHex == <<"0", "x">> \o ToString16(keys.spendingKey.publicKey)
      viewingHex == <<"0", "x">> \o ToString16(keys.viewingKey.publicKey)
  IN  <<[contractAddress |-> AMORA_ADDRESS, entrypoint |-> "register_keys",
         calldata |-> <<CompileFelt(spendingHex), CompileFelt(viewingHex)>>]>>

\* Amora.getMetaAddress: the contract's answer as a MetaAddress, null when a
\* key is zero
getMetaAddress(self, registrantAddress) ==
  LET Parsed(result) ==
        IF result[1] = 0 \/ result[2] = 0 THEN Null
        ELSE [chain |-> CHAIN_ID, spendingPubKey |-> result[1], viewingPubKey |-> result[2]]
  IN  Parsed(get_meta_address(self, registrantAddress))

isRegistered(self, registrantAddress) == is_registered(self, registrantAddress)

\* Amora.generateStealthAddress on a meta-address string
AmoraGenerateStealthAddress(recipientMetaAddress, rawKey) ==
  LET meta == parseMetaAddress(recipientMetaAddress)
  IN  IF meta = ErrResult THEN ErrResult
      ELSE generateStealthAddress(meta, ACCOUNT_CLASS_HASH, rawKey)

\* buildSendCalls with the halves of the u256 amount in the other order
buildSendCallsHighFirst(tokenAddress, amount, stealthResult, metadata) ==
  LET fullMetadata == <<BigIntOfString(tokenAddress), amount>> \o metadata
  IN  <<[contractAddress |-> tokenAddress, entrypoint |-> "transfer",
         calldata |-> <<CompileFelt(stealthResult.stealthAddress),
                        amount \div UINT128, amount % UINT128>>],
        [contractAddress |-> AMORA_ADDRESS, entrypoint |-> "announce",
         calldata |-> <<CompileFelt(stealthResult.stealthAddress),
                        CompileFelt(ToString10(stealthResult.ephemeralPubKey)),
                        stealthResult.viewTag, Len(fullMetadata)>>
                      \o [i \in 1 .. Len(fullMetadata) |-> CompileFelt(ToString10(fullMetadata[i]))]]>>

buildSendCalls(tokenAddress, amount, stealthResult, metadata) ==
  LET transferCall ==
        [contractAddress |-> tokenAddress, entrypoint |-> "transfer",
         calldata |-> <<CompileFelt(stealthResult.stealthAddress),
                        amount % UINT128, amount \div UINT128>>]
      fullMetadata == <<BigIntOfString(tokenAddress), amount>> \o metadata
      announceCall ==
        [contractAddress |-> AMORA_ADDRESS, entrypoint |-> "announce",
         calldata |-> <<CompileFelt(stealthResult.stealthAddress),
                        CompileFelt(ToString10(stealthResult.ephemeralPubKey)),
                        stealthResult.viewTag, Len(fullMetadata)>>
                      \o [i \in 1 .. Len(fullMetadata) |-> CompileFelt(ToString10(fullMetadata[i]))]]
  IN  <<transferCall, announceCall>>

\* Amora.buildBatchSendCalls(payments): one fresh stealth address per payment,
\* rawKeys[i] the ephemeral key drawn for payment i; a meta-address that does
\* not parse, or a hash out of range, throws out of the whole call
RECURSIVE BatchLoop(_, _, _, _)
BatchLoop(payments, rawKeys, allCalls, stealthResults) ==
  IF payments = <<>> THEN [calls |-> allCalls, stealthResults |-> stealthResults]
  ELSE LET payment == Head(payments)
           Pushed(stealthResult) ==
             IF stealthResult = ErrResult THEN ErrResult
             ELSE BatchLoop(Tail(payments), Tail(rawKeys),
                            allCalls \o buildSendCalls(payment.tokenAddress, payment.amount,
                                                       stealthResult, payment.metadata),
                            Append(stealthResults, stealthResult))
       IN  Pushed(AmoraGenerateStealthAddress(payment.metaAddress, Head(rawKeys)))

\* buildBatchSendCalls that derives every stealth address from the first
\* payment's meta-address
buildBatchSendCallsToFirst(payments, rawKeys) ==
  BatchLoop([i \in 1 .. Len(payments) |->
               [payments[i] EXCEPT !.metaAddress = payments[1].metaAddress]],
            rawKeys, <<>>, <<>>)

buildBatchSendCalls(payments, rawKeys) == BatchLoop(payments, rawKeys, <<>>, <<>>)

\* amount: bigint | "all"
All == -5

\* isAccountDeployed that takes every account for undeployed
isAccountDeployedNever(answer) == FALSE

\* Amora.isAccountDeployed on the answer of provider.getClassHashAt: a class
\* hash, 0 for "0x0", or an error, which the catch turns into false
isAccountDeployed(answer) ==
  IF answer = ErrResult THEN FALSE ELSE answer.classHash # 0

\* deployStealthAccount with the account's private key as address salt
deployStealthAccountSaltedByKey(privateKey, publicKey) ==
  [account |-> computeStealthContractAddress(publicKey, ACCOUNT_CLASS_HASH),
   signer |-> ToString10(privateKey),
   payload |-> [classHash |-> ACCOUNT_CLASS_HASH,
                constructorCalldata |-> <<CompileFelt(ToString10(publicKey))>>,
                addressSalt |-> ToString10(privateKey)]]

\* Amora.deployStealthAccount: the Account that deploys and the payload of
\* its deployAccount
deployStealthAccount(privateKey, publicKey) ==
  [account |-> computeStealthContractAddress(publicKey, ACCOUNT_CLASS_HASH),
   signer |-> ToString10(privateKey),
   payload |-> [classHash |-> ACCOUNT_CLASS_HASH,
                constructorCalldata |-> <<CompileFelt(ToString10(publicKey))>>,
                addressSalt |-> ToString10(publicKey)]]

\* the address at which the chain deploys an account from a DEPLOY_ACCOUNT
\* transaction: the hash of salt, class hash and constructor calldata with
\* deployer 0
DeployAccountAddress(payload) ==
  ContractAddressNumber(BigIntOfString(payload.addressSalt), payload.classHash,
                        payload.constructorCalldata, 0)

\* the balance a token's balanceOf returns, in the three shapes the code
\* reads: an array [low, high], an object {low, high}, or one bigint; parts
\* holds the numbers of the shape in this order
BalanceValue(balance) ==
  CASE balance.shape = "array" -> balance.parts[1] + balance.parts[2] * UINT128
    [] balance.shape = "u256" -> balance.parts[1] + balance.parts[2] * UINT128
    [] OTHER -> balance.parts[1]

\* step 6 of deployAndWithdraw: the transfer call
WithdrawCall(tokenAddress, destinationAddress, withdrawAmount) ==
  [contractAddress |-> tokenAddress, entrypoint |-> "transfer",
   calldata |-> <<CompileFelt(destinationAddress),
                  withdrawAmount % UINT128, withdrawAmount \div UINT128>>]

\* account.execute(calls): the calls run in order in one transaction of a new
\* block; a call to the registry runs the contract, a call to the token
\* contract changes nothing the registry or the SDK reads; chain is the
\* storage and the event log, the result the new chain or Reverted
\* the number of the block a new transaction is mined in
NextBlock(chain) ==
  IF chain.events = <<>> THEN 1
  ELSE chain.events[Len(chain.events)].block_number + 1

ExecuteCall(chain, caller, call, block_number) ==
  LET cd == call.calldata
      Mined(outcome) ==
        IF outcome = Reverted THEN Reverted
        ELSE [storage |-> outcome.storage,
              events |-> Append(chain.events,
                           [name |-> outcome.emitted.name, keys |-> outcome.emitted.keys,
                            data |-> outcome.emitted.data,
                            block_number |-> block_number])]
  IN  IF call.contractAddress # AMORA_ADDRESS THEN chain
      ELSE IF call.entrypoint = "register_keys"
           THEN Mined(register_keys(chain.storage, caller, cd[1], cd[2]))
           ELSE Mined(announce(chain.storage, caller, cd[1], cd[2], cd[3],
                               SubSeq(cd, 5, 4 + cd[4])))

RECURSIVE ExecuteCalls(_, _, _, _)
ExecuteCalls(chain, caller, calls, block_number) ==
  IF calls = <<>> THEN chain
  ELSE LET Then(next) ==
             IF next = Reverted THEN Reverted
             ELSE ExecuteCalls(next, caller, Tail(calls), block_number)
       IN  Then(ExecuteCall(chain, caller, Head(calls), block_number))

Execute(chain, caller, calls) == ExecuteCalls(chain, caller, calls, NextBlock(chain))

\* the block range of a query: toBlock is a block number or "latest"
Latest == [latest |-> TRUE]

\* provider.getEvents: the events of the registry in the block range, at most
\* chunk_size of them, and a continuation token when more remain
getEvents(log, from_block, to_block, chunk_size) ==
  LET InRange(e) == /\ e.block_number >= from_block
                    /\ to_block = Latest \/ e.block_number <= to_block.block_number
      matching == SelectSeq(log, InRange)
  IN  [events |-> SubSeq(matching, 1, IF Len(matching) < chunk_size THEN Len(matching)
                                      ELSE chunk_size),
       continuation_token |-> Len(matching) > chunk_size]

\* ParseEvent taking every felt after metadata_len as metadata
ParseEventAllRemaining(event) ==
  LET data == event.data
      ephemeralPubKey == BigIntOfString(data[3])
      viewTag == BigIntOfString(data[4])
      count == IF Len(data) > 5 THEN Len(data) - 5 ELSE 0
      metadata == [i \in 1 .. count |-> BigIntOfString(data[i + 5])]
  IN  IF Len(data) < 4 THEN Null
      ELSE IF ephemeralPubKey = Err \/ viewTag = Err THEN Null
      ELSE IF \E i \in 1 .. count : metadata[i] = Err THEN Null
      ELSE [stealthAddress |-> data[1], ephemeralPubKey |-> ephemeralPubKey,
            viewTag |-> viewTag, metadata |-> metadata, blockNumber |-> event.block_number]

\* the body of the loop of fetchAnnouncements: an Announcement, or Null for an
\* event that is skipped (fewer than 4 data fields, or a field BigInt rejects)
ParseEvent(event) ==
  LET data == event.data
      stealthAddress == data[1]
      ephemeralPubKey == BigIntOfString(data[3])
      viewTag == BigIntOfString(data[4])
      metadataLen == BigIntOfString(IF Len(data) > 4 /\ data[5] # <<>> THEN data[5] ELSE <<"0">>)
      count == IF metadataLen < Len(data) - 5 THEN metadataLen ELSE Len(data) - 5
      metadata == [i \in 1 .. count |-> BigIntOfString(data[i + 5])]
  IN  IF Len(data) < 4 THEN Null
      ELSE IF ephemeralPubKey = Err \/ viewTag = Err \/ metadataLen = Err THEN Null
      ELSE IF \E i \in 1 .. count : metadata[i] = Err THEN Null
      ELSE [stealthAddress |-> stealthAddress, ephemeralPubKey |-> ephemeralPubKey,
            viewTag |-> viewTag, metadata |-> metadata, blockNumber |-> event.block_number]

\* the loop of fetchAnnouncements ending at the first event it cannot parse
RECURSIVE ParseEventsUntilMalformed(_)
ParseEventsUntilMalformed(fetched) ==
  IF fetched = <<>> THEN <<>>
  ELSE LET Push(announcement) ==
             IF announcement = Null THEN <<>>
             ELSE <<announcement>> \o ParseEventsUntilMalformed(Tail(fetched))
       IN  Push(ParseEvent(Head(fetched)))

RECURSIVE ParseEvents(_)
ParseEvents(fetched) ==
  IF fetched = <<>> THEN <<>>
  ELSE LET Push(announcement) == IF announcement = Null THEN <<>> ELSE <<announcement>>
       IN  Push(ParseEvent(Head(fetched))) \o ParseEvents(Tail(fetched))

\* fetchAnnouncements: one getEvents request, its continuation token unread
fetchAnnouncements(log, fromBlock, toBlock) ==
  ParseEvents(getEvents(log, fromBlock, toBlock, CHUNK_SIZE).events)

\* Amora.scan
scan(log, keys, fromBlock, toBlock) ==
  scanAnnouncements(fetchAnnouncements(log, fromBlock, toBlock), keys.viewingKey.privateKey,
                    keys.spendingKey.publicKey, keys.spendingKey.privateKey, ACCOUNT_CLASS_HASH)

\* ------------------------------------------------------------------------
\* payment-link.ts.  A link is a string of characters; the characters whose
\* code matters to the percent encoding are tabulated with their ASCII codes
\* ------------------------------------------------------------------------
AsciiCode ==
  (" " :> 32) @@ ("\"" :> 34) @@ ("%" :> 37) @@ ("&" :> 38) @@ ("*" :> 42) @@ ("+" :> 43)
    @@ ("/" :> 47) @@ (":" :> 58) @@ ("=" :> 61) @@ ("?" :> 63) @@ ("R" :> 82)
    @@ ("U" :> 85) @@ ("Z" :> 90)

\* the tabulated characters encodeURIComponent escapes; letters, digits and
\* - _ . ! ~ * ' ( ) stay as they are
UriReserved == {" ", "\"", "%", "&", "+", "/", ":", "=", "?"}

\* a character that is in no table of the model
OtherChar == "U+FFFD"

\* void 0 for a string and for a bigint
Undefined == <<"undefined">>

UndefinedAmount == -3

encodeURIComponent(str) ==
  LET Escape(c) ==
        IF c \in UriReserved
        THEN <<"%", UpperHexDigits[(AsciiCode[c] \div 16) + 1],
               UpperHexDigits[(AsciiCode[c] % 16) + 1]>>
        ELSE <<c>>
      RECURSIVE Encode(_)
      Encode(rest) == IF rest = <<>> THEN <<>> ELSE Escape(Head(rest)) \o Encode(Tail(rest))
  IN  Encode(str)

\* the character of a byte below 128
CharOfByte(byte) ==
  IF \E c \in DOMAIN AsciiCode : AsciiCode[c] = byte
  THEN CHOOSE c \in DOMAIN AsciiCode : AsciiCode[c] = byte
  ELSE IF byte >= 48 /\ byte <= 57 THEN HexDigits[byte - 47]
  ELSE IF byte >= 97 /\ byte <= 102 THEN HexDigits[byte - 86]
  ELSE IF byte >= 65 /\ byte <= 70 THEN UpperHexDigits[byte - 54]
  ELSE OtherChar

\* str begins with "%" and two hex digits
IsEscape(str) ==
  Len(str) >= 3 /\ str[1] = "%" /\ HexValue(str[2]) # Err /\ HexValue(str[3]) # Err

EscapedByte(str) == HexValue(str[2]) * 16 + HexValue(str[3])

\* the decoding URLSearchParams applies to a name or value: "+" is a space,
\* "%XX" is a byte, a "%" that leads no escape stays; bytes are read as UTF-8
\* and one that is no ASCII character decodes to a character outside the tables
RECURSIVE FormDecode(_)
FormDecode(str) ==
  IF str = <<>> THEN <<>>
  ELSE IF IsEscape(str)
    THEN <<IF EscapedByte(str) < 128 THEN CharOfByte(EscapedByte(str)) ELSE OtherChar>>
           \o FormDecode(SubSeq(str, 4, Len(str)))
  ELSE <<IF Head(str) = "+" THEN " " ELSE Head(str)>> \o FormDecode(Tail(str))

\* decodeURIComponent: a "%" that leads no escape, and escaped bytes that are
\* not the UTF-8 form of a character, raise a URIError
RECURSIVE decodeURIComponent(_)
decodeURIComponent(str) ==
  IF str = <<>> THEN <<>>
  ELSE LET Prepend(chars, rest) == IF rest = ErrStr THEN ErrStr ELSE chars \o rest
           Continues(n) ==
             /\ n >= 2 /\ Len(str) >= 3 * n
             /\ \A k \in 1 .. (n - 1) :
                  /\ IsEscape(SubSeq(str, 3 * k + 1, Len(str)))
                  /\ EscapedByte(SubSeq(str, 3 * k + 1, Len(str))) >= 128
                  /\ EscapedByte(SubSeq(str, 3 * k + 1, Len(str))) < 192
           Escaped(byte) ==
             IF byte < 128
             THEN Prepend(<<CharOfByte(byte)>>, decodeURIComponent(SubSeq(str, 4, Len(str))))
             ELSE IF Continues(Utf8Length(byte))
             THEN Prepend(<<OtherChar>>,
                          decodeURIComponent(SubSeq(str, 3 * Utf8Length(byte) + 1, Len(str))))
             ELSE ErrStr
       IN  IF Head(str) # "%" THEN Prepend(<<Head(str)>>, decodeURIComponent(Tail(str)))
           ELSE IF IsEscape(str) THEN Escaped(EscapedByte(str))
           ELSE ErrStr

\* new URLSearchParams(queryString).get(name): the decoded value of the first
\* pair of that name, Undefined (null) when there is none
RECURSIVE SearchParamsGet(_, _)
SearchParamsGet(pairs, name) ==
  IF pairs = <<>> THEN Undefined
  ELSE LET Pair(parts) ==
             IF Head(pairs) # <<>> /\ FormDecode(parts[1]) = name
             THEN FormDecode(SubSeq(Head(pairs), Len(parts[1]) + 2, Len(Head(pairs))))
             ELSE SearchParamsGet(Tail(pairs), name)
       IN  Pair(Split(Head(pairs), "="))

isValidMetaAddress(metaAddress) == parseMetaAddress(metaAddress) # ErrResult

PAYMENT_LINK_PREFIX == <<"a", "m", "o", "r", "a", ":", "/", "/", "p", "a", "y", "?">>

generatePaymentLink(params) ==
  IF ~isValidMetaAddress(params.metaAddress) THEN ErrStr
  ELSE PAYMENT_LINK_PREFIX
         \o <<"m", "e", "t", "a", "=">> \o encodeURIComponent(params.metaAddress)
         \o (IF params.tokenAddress # Undefined
             THEN <<"&", "t", "o", "k", "e", "n", "=">> \o encodeURIComponent(params.tokenAddress)
             ELSE <<>>)
         \o (IF params.amount # UndefinedAmount
             THEN <<"&", "a", "m", "o", "u", "n", "t", "=">> \o ToString10(params.amount)
             ELSE <<>>)
         \o (IF params.memo # Undefined
             THEN <<"&", "m", "e", "m", "o", "=">> \o encodeURIComponent(params.memo)
             ELSE <<>>)

parsePaymentLink(link) ==
  LET Parse(pairs) ==
        LET metaRaw == SearchParamsGet(pairs, <<"m", "e", "t", "a">>)
            token == SearchParamsGet(pairs, <<"t", "o", "k", "e", "n">>)
            amount == SearchParamsGet(pairs, <<"a", "m", "o", "u", "n", "t">>)
            memo == SearchParamsGet(pairs, <<"m", "e", "m", "o">>)
            Given(value) == value # Undefined /\ value # <<>>
        IN  IF ~Given(metaRaw) THEN ErrResult
            ELSE IF decodeURIComponent(metaRaw) = ErrStr THEN ErrResult
            ELSE IF parseMetaAddress(decodeURIComponent(metaRaw)) = ErrResult THEN ErrResult
            ELSE IF Given(token) /\ decodeURIComponent(token) = ErrStr THEN ErrResult
            ELSE IF Given(amount) /\ BigIntOfString(amount) = Err THEN ErrResult
            ELSE IF Given(memo) /\ decodeURIComponent(memo) = ErrStr THEN ErrResult
            ELSE [metaAddress |-> parseMetaAddress(decodeURIComponent(metaRaw)),
                  metaAddressRaw |-> decodeURIComponent(metaRaw),
                  tokenAddress |-> IF Given(token) THEN decodeURIComponent(token) ELSE Undefined,
                  amount |-> IF Given(amount) THEN BigIntOfString(amount) ELSE UndefinedAmount,
                  memo |-> IF Given(memo) THEN decodeURIComponent(memo) ELSE Undefined]
  IN  IF link = ErrStr \/ Len(link) < Len(PAYMENT_LINK_PREFIX)
         \/ SubSeq(link, 1, Len(PAYMENT_LINK_PREFIX)) # PAYMENT_LINK_PREFIX
      THEN ErrResult
      ELSE Parse(Split(SubSeq(link, Len(PAYMENT_LINK_PREFIX) + 1, Len(link)), "&"))

\* ------------------------------------------------------------------------
\* Bounds
\* ------------------------------------------------------------------------
\* the random source and the imported keys range over 1 .. MaxRawKey
MaxRawKey == 2

\* length of the announcement sequence handed to a scan
MaxAnnouncements == 2

\* number of events in the registry's log
MaxEvents == 3

\* number of characters of a memo
MaxMemoChars == 3

\* number of hex digits of an address string
MaxHexDigits == 2

\* number of payments of one batch
MaxPayments == 2

RawKeys == 1 .. MaxRawKey

\* A is the recipient whose scans are observed, B another recipient
Recipients == {"A", "B"}

\* ------------------------------------------------------------------------
\* State
\* ------------------------------------------------------------------------
VARIABLES
  keys,           \* the StealthKeys each recipient holds, NoKeys before creation
  announcements,  \* the announcement sequence a recipient scans
  sent,           \* per announcement: whom it was made for, the sender's result, how it was altered
  scanned         \* what the operation just performed returned, when it was a scan:
                  \* who ran it, which function, on what input, its result

VARIABLES
  applied         \* the pure function applied last, its arguments and what it returned

VARIABLES
  storage,        \* the registry contract's Storage
  events          \* the events the registry emitted, oldest first

chainVars == <<storage, events>>

scanVars == <<keys, announcements, sent, scanned>>

vars == <<keys, announcements, sent, scanned, applied, storage, events>>

NotApplied == [op |-> "none"]

\* a local of a function in progress that no statement has assigned yet
NotComputed == -4

\* the function in progress has not returned
Pending == [pending |-> TRUE]

NoKeys == [spendingKey |-> [privateKey |-> 0, publicKey |-> 0],
           viewingKey |-> [privateKey |-> 0, publicKey |-> 0]]

NoScan == [by |-> "none", kind |-> "none", input |-> <<>>, result |-> <<>>]

\* the MetaAddress a sender works from: the published string, parsed
MetaAddressOf(k) == parseMetaAddress(encodeMetaAddress(k))

AnnouncementOf(result) ==
  [stealthAddress |-> result.stealthAddress, ephemeralPubKey |-> result.ephemeralPubKey,
   viewTag |-> result.viewTag, metadata |-> <<>>]

Init ==
  /\ keys = [id \in Recipients |-> NoKeys]
  /\ announcements = <<>>
  /\ sent = <<>>
  /\ scanned = NoScan
  /\ applied = NotApplied
  /\ storage = EmptyStorage
  /\ events = <<>>

\* keys.ts generateKeys(), the random source returning rawSpending, rawViewing
GenerateKeys(id, rawSpending, rawViewing) ==
  /\ keys[id] = NoKeys
  /\ keys' = [keys EXCEPT ![id] = generateKeys(rawSpending, rawViewing)]
  /\ scanned' = NoScan
  /\ UNCHANGED <<announcements, sent, applied, storage, events>>

\* keys.ts keysFromPrivateKeys(spendingPrivateKey, viewingPrivateKey)
KeysFromPrivateKeys(id, spendingPrivateKey, viewingPrivateKey) ==
  /\ keys[id] = NoKeys
  /\ keys' = [keys EXCEPT ![id] = keysFromPrivateKeys(spendingPrivateKey, viewingPrivateKey)]
  /\ scanned' = NoScan
  /\ UNCHANGED <<announcements, sent, applied, storage, events>>

\* a sender calls generateStealthAddress for recipient id and the announcement
\* built from the result joins the sequence; a throw produces no announcement
Send(id, rawKey) ==
  /\ keys[id] # NoKeys
  /\ Len(announcements) < MaxAnnouncements
  /\ LET Announce(result) ==
           /\ result # ErrResult
           /\ announcements' = Append(announcements, AnnouncementOf(result))
           /\ sent' = Append(sent, [to |-> id, result |-> result, altered |-> "no"])
     IN  Announce(generateStealthAddress(MetaAddressOf(keys[id]), ACCOUNT_CLASS_HASH, rawKey))
  /\ scanned' = NoScan
  /\ UNCHANGED <<keys, applied, storage, events>>

\* the same with generateStealthAddressWithKey and a caller-chosen ephemeral key
SendWithKey(id, ephemeralPrivateKey) ==
  /\ keys[id] # NoKeys
  /\ Len(announcements) < MaxAnnouncements
  /\ LET Announce(result) ==
           /\ result # ErrResult
           /\ announcements' = Append(announcements, AnnouncementOf(result))
           /\ sent' = Append(sent, [to |-> id, result |-> result, altered |-> "no"])
     IN  Announce(generateStealthAddressWithKey(MetaAddressOf(keys[id]), ephemeralPrivateKey,
                                                ACCOUNT_CLASS_HASH))
  /\ scanned' = NoScan
  /\ UNCHANGED <<keys, applied, storage, events>>

\* the announcement as a scanner may receive it from elsewhere: the address
\* written with a leading zero and upper-case digits, a different view tag,
\* the address of another account, or an ephemeral key that is no x-coordinate
UpperChar(c) ==
  IF \E i \in 11 .. 16 : HexDigits[i] = c
  THEN UpperHexDigits[CHOOSE i \in 11 .. 16 : HexDigits[i] = c] ELSE c

PaddedUpper(address) ==
  <<"0", "x", "0">> \o [i \in 1 .. (Len(address) - 2) |-> UpperChar(address[i + 2])]

OFF_CURVE_X == 0

Alterations == {"padded", "tag", "address", "ephemeral"}

Altered(ann, how) ==
  CASE how = "padded" -> [ann EXCEPT !.stealthAddress = PaddedUpper(@)]
    [] how = "tag" -> [ann EXCEPT !.viewTag = (@ + 1) % VIEW_TAG_MODULUS]
    [] how = "address" ->
         [ann EXCEPT !.stealthAddress =
            computeStealthContractAddress((sent[Len(sent)].result.stealthPubKey + 1) % FIELD_PRIME,
                                          ACCOUNT_CLASS_HASH)]
    [] how = "ephemeral" -> [ann EXCEPT !.ephemeralPubKey = OFF_CURVE_X]

Alter(how) ==
  /\ announcements # <<>>
  /\ \A i \in 1 .. Len(sent) : sent[i].altered = "no"
  /\ announcements' = [announcements EXCEPT ![Len(announcements)] = Altered(@, how)]
  /\ sent' = [sent EXCEPT ![Len(sent)].altered = how]
  /\ scanned' = NoScan
  /\ UNCHANGED <<keys, applied, storage, events>>

\* stealth.ts scanAnnouncements with the recipient's own keys
Scan(id) ==
  /\ keys[id] # NoKeys
  /\ scanned' = [by |-> id, kind |-> "full", input |-> announcements,
                 result |-> scanAnnouncements(announcements, keys[id].viewingKey.privateKey,
                              keys[id].spendingKey.publicKey, keys[id].spendingKey.privateKey,
                              ACCOUNT_CLASS_HASH)]
  /\ UNCHANGED <<keys, announcements, sent, applied, storage, events>>

\* viewing-key.ts: export, import, scanWithViewingKey
ScanWithViewingKey(id) ==
  /\ keys[id] # NoKeys
  /\ scanned' = [by |-> id, kind |-> "watch", input |-> announcements,
                 result |-> scanWithViewingKey(announcements,
                              importViewingKey(exportViewingKey(keys[id])), ACCOUNT_CLASS_HASH)]
  /\ UNCHANGED <<keys, announcements, sent, applied, storage, events>>

Next ==
  \/ \E id \in Recipients, rs, rv \in RawKeys : GenerateKeys(id, rs, rv)
  \/ \E s, v \in RawKeys : KeysFromPrivateKeys("A", s, v)
  \/ \E id \in Recipients, r \in RawKeys : Send(id, r)
  \/ \E id \in Recipients, r \in RawKeys : SendWithKey(id, r)
  \/ Scan("A")
  \/ ScanWithViewingKey("A")

Spec == Init /\ [][Next]_vars

\* recipient A alone, scanning announcements of which one reached it altered
NextAltered ==
  \/ \E rs, rv \in RawKeys : GenerateKeys("A", rs, rv)
  \/ \E s, v \in RawKeys : KeysFromPrivateKeys("A", s, v)
  \/ \E r \in RawKeys : Send("A", r)
  \/ \E r \in RawKeys : SendWithKey("A", r)
  \/ \E how \in Alterations : Alter(how)
  \/ Scan("A")
  \/ ScanWithViewingKey("A")

SpecAltered == Init /\ [][NextAltered]_vars

\* ------------------------------------------------------------------------
\* The registry on chain: registration, send, fetch and scan through Amora
\* ------------------------------------------------------------------------
\* what a sender pays and attaches: an amount below and one above 2^128
Payments == {[amount |-> 1, metadata |-> <<>>], [amount |-> 17, metadata |-> <<9>>]}

FromBlocks == 1 .. MaxEvents

ToBlocks == {Latest} \cup {[block_number |-> n] : n \in 1 .. MaxEvents}

\* Amora.register(account, keys) from the recipient's own account
Register(id) ==
  /\ keys[id] # NoKeys
  /\ Len(events) < MaxEvents
  /\ LET Mined(chain) ==
           /\ chain # Reverted
           /\ storage' = chain.storage
           /\ events' = chain.events
     IN  Mined(Execute([storage |-> storage, events |-> events], AccountOf[id],
                       register(keys[id])))
  /\ scanned' = NoScan
  /\ UNCHANGED <<keys, announcements, sent, applied>>

\* a sender derives a stealth address from the recipient's meta-address and
\* calls Amora.send: buildSendCalls, then account.execute of the two calls
ChainSend(id, rawKey, amount, metadata) ==
  /\ keys[id] # NoKeys
  /\ Len(events) < MaxEvents
  /\ LET Mined(result, chain) ==
           /\ result # ErrResult
           /\ chain # Reverted
           /\ storage' = chain.storage
           /\ events' = chain.events
           /\ sent' = Append(sent, [to |-> id, result |-> result, altered |-> "no",
                                    amount |-> amount, metadata |-> metadata,
                                    block |-> chain.events[Len(chain.events)].block_number])
         Sent(result) ==
           Mined(result,
                 IF result = ErrResult THEN Reverted
                 ELSE Execute([storage |-> storage, events |-> events], AccountOf["sender"],
                              buildSendCalls(TOKEN_ADDRESS, amount, result, metadata)))
     IN  Sent(AmoraGenerateStealthAddress(encodeMetaAddress(keys[id]), rawKey))
  /\ scanned' = NoScan
  /\ UNCHANGED <<keys, announcements, applied>>

\* Amora.fetchAnnouncements(fromBlock, toBlock)
FetchAnnouncements(fromBlock, toBlock) ==
  /\ LET Fetched(result) ==
           /\ announcements' = result
           /\ scanned' = [by |-> "none", kind |-> "fetch", input |-> <<>>, result |-> result,
                          fromBlock |-> fromBlock, toBlock |-> toBlock]
     IN  Fetched(fetchAnnouncements(events, fromBlock, toBlock))
  /\ UNCHANGED <<keys, sent, applied, storage, events>>

\* Amora.scan(keys, fromBlock, toBlock)
ChainScan(id, fromBlock, toBlock) ==
  /\ keys[id] # NoKeys
  /\ scanned' = [by |-> id, kind |-> "chain",
                 input |-> fetchAnnouncements(events, fromBlock, toBlock),
                 result |-> scan(events, keys[id], fromBlock, toBlock),
                 fromBlock |-> fromBlock, toBlock |-> toBlock]
  /\ UNCHANGED <<keys, announcements, sent, applied, storage, events>>

NextChain ==
  \/ \E rs, rv \in RawKeys : GenerateKeys("A", rs, rv)
  \/ Register("A")
  \/ \E r \in RawKeys, payment \in Payments :
       ChainSend("A", r, payment.amount, payment.metadata)
  \/ \E fromBlock \in FromBlocks, toBlock \in ToBlocks : FetchAnnouncements(fromBlock, toBlock)
  \/ \E fromBlock \in FromBlocks, toBlock \in ToBlocks : ChainScan("A", fromBlock, toBlock)

SpecChain == Init /\ [][NextChain]_vars

\* ------------------------------------------------------------------------
\* The chain client's answer to the event query, whatever the node sends:
\* records with too few data fields, fields that are no numbers, a
\* metadata_len that is larger or smaller than the data that follow
\* ------------------------------------------------------------------------
NotANumber == <<"z", "z">>

EventData ==
  {<<>>,
   <<FeltToHex(1), FeltToHex(3)>>,
   <<FeltToHex(7), FeltToHex(9), FeltToHex(3), FeltToHex(1)>>,
   <<FeltToHex(7), FeltToHex(9), FeltToHex(3), FeltToHex(1), <<>>, FeltToHex(4)>>,
   <<FeltToHex(7), FeltToHex(9), FeltToHex(3), FeltToHex(1), FeltToHex(3), FeltToHex(4)>>,
   <<FeltToHex(7), FeltToHex(9), FeltToHex(3), FeltToHex(1), FeltToHex(1), FeltToHex(4), NotANumber>>,
   <<FeltToHex(7), FeltToHex(9), NotANumber, FeltToHex(1)>>,
   <<FeltToHex(7), FeltToHex(9), FeltToHex(3), NotANumber, FeltToHex(0)>>,
   <<FeltToHex(7), FeltToHex(9), FeltToHex(3), FeltToHex(1), NotANumber>>,
   <<FeltToHex(7), FeltToHex(9), FeltToHex(3), FeltToHex(1), FeltToHex(2), FeltToHex(4), NotANumber>>}

\* the node adds one event to the log of the registry's address
Deliver(data) ==
  /\ Len(events) < MaxEvents
  /\ events' = Append(events, [name |-> "Event", keys |-> <<>>, data |-> data,
                               block_number |-> NextBlock([events |-> events])])
  /\ scanned' = NoScan
  /\ UNCHANGED <<keys, announcements, sent, applied, storage>>

NextEvents ==
  \/ \E data \in EventData : Deliver(data)
  \/ \E fromBlock \in FromBlocks, toBlock \in ToBlocks : FetchAnnouncements(fromBlock, toBlock)

SpecEvents == Init /\ [][NextEvents]_vars

\* ------------------------------------------------------------------------
\* The pure functions of crypto.ts applied to every scalar of the curve
\* ------------------------------------------------------------------------
ApplyNormalizePrivateKey(k) ==
  /\ applied = NotApplied
  /\ applied' = [op |-> "normalizePrivateKey", privateKey |-> k,
                 once |-> normalizePrivateKey(k),
                 twice |-> normalizePrivateKey(normalizePrivateKey(k))]
  /\ UNCHANGED <<scanVars, chainVars>>

\* both parties of a Diffie-Hellman exchange, each with the other's public key
ApplyEcdh(a, b) ==
  /\ applied = NotApplied
  /\ applied' = [op |-> "ecdh", a |-> a, b |-> b,
                 publicA |-> derivePublicKey(a), publicB |-> derivePublicKey(b),
                 sharedA |-> ecdh(a, derivePublicKey(b)),
                 sharedB |-> ecdh(b, derivePublicKey(a))]
  /\ UNCHANGED <<scanVars, chainVars>>

\* crypto.test.ts "should generate matching stealth keys": three fresh keys
\* from generatePrivateKey, the sender's and the recipient's derivations
ApplyStealthKeys(rawSpending, rawViewing, rawEphemeral) ==
  /\ applied = NotApplied
  /\ LET spendingPrivate == generatePrivateKey(rawSpending)
         spendingPublic == derivePublicKey(spendingPrivate)
         viewingPrivate == generatePrivateKey(rawViewing)
         viewingPublic == derivePublicKey(viewingPrivate)
         ephemeralPrivate == generatePrivateKey(rawEphemeral)
         ephemeralPublic == derivePublicKey(ephemeralPrivate)
         senderSharedSecret == ecdh(ephemeralPrivate, viewingPublic)
         recipientSharedSecret == ecdh(viewingPrivate, ephemeralPublic)
         stealthPrivateKey == computeStealthPrivateKey(spendingPrivate, recipientSharedSecret)
     IN  applied' = [op |-> "stealthKeys",
                     spendingPrivate |-> spendingPrivate, viewingPrivate |-> viewingPrivate,
                     ephemeralPrivate |-> ephemeralPrivate,
                     senderSharedSecret |-> senderSharedSecret,
                     recipientSharedSecret |-> recipientSharedSecret,
                     stealthPubKey |-> computeStealthPublicKey(spendingPublic, senderSharedSecret),
                     stealthPrivateKey |-> stealthPrivateKey,
                     derivedStealthPublic |-> derivePublicKey(stealthPrivateKey)]
  /\ UNCHANGED <<scanVars, chainVars>>

\* computeStealthPrivateKey on a spending private key of [1, N-1] and a
\* shared secret, any field element
ApplyComputeStealthPrivateKey(spendingPrivateKey, sharedSecret) ==
  /\ applied = NotApplied
  /\ applied' = [op |-> "computeStealthPrivateKey",
                 spendingPrivateKey |-> spendingPrivateKey, sharedSecret |-> sharedSecret,
                 stealthPrivateKey |-> computeStealthPrivateKey(spendingPrivateKey, sharedSecret)]
  /\ UNCHANGED <<scanVars, chainVars>>

NextCrypto ==
  \/ \E k \in Scalars : ApplyNormalizePrivateKey(k)
  \/ \E a, b \in Scalars : ApplyEcdh(a, b)
  \/ \E rs, rv, re \in Scalars : ApplyStealthKeys(rs, rv, re)
  \/ \E spendingPrivateKey \in Scalars, sharedSecret \in Felts :
       ApplyComputeStealthPrivateKey(spendingPrivateKey, sharedSecret)

SpecCrypto == Init /\ [][NextCrypto]_vars

\* ------------------------------------------------------------------------
\* The registry called directly: accounts A and B register keys, the sender's
\* account announces; sent is the log of the transactions, reverted ones too
\* ------------------------------------------------------------------------
RegistryCalls ==
  {[contractAddress |-> AMORA_ADDRESS, entrypoint |-> "register_keys",
    caller |-> AccountOf[id], calldata |-> <<spending_pubkey, viewing_pubkey>>] :
     id \in Recipients, spending_pubkey \in {0, 1, 2}, viewing_pubkey \in {0, 3}}
  \cup
  {[contractAddress |-> AMORA_ADDRESS, entrypoint |-> "announce",
    caller |-> AccountOf["sender"],
    calldata |-> <<stealth_address, ephemeral_pubkey, 1, 0>>] :
     stealth_address \in {0, 7}, ephemeral_pubkey \in {0, 3}}

\* one transaction with one call to the registry
Invoke(call) ==
  /\ Len(sent) < MaxEvents
  /\ LET Mined(chain) ==
           /\ storage' = IF chain = Reverted THEN storage ELSE chain.storage
           /\ events' = IF chain = Reverted THEN events ELSE chain.events
           /\ sent' = Append(sent, [call |-> call, reverted |-> chain = Reverted])
     IN  Mined(Execute([storage |-> storage, events |-> events], call.caller, <<call>>))
  /\ UNCHANGED <<keys, announcements, scanned, applied>>

NextRegistry ==
  \/ \E call \in RegistryCalls : call.entrypoint = "register_keys" /\ Invoke(call)
  \/ \E call \in RegistryCalls : call.entrypoint = "announce" /\ Invoke(call)

SpecRegistry == Init /\ [][NextRegistry]_vars

\* ------------------------------------------------------------------------
\* The codecs, each applied once to an input drawn from a bounded set
\* ------------------------------------------------------------------------
\* NUL, "a", e with acute accent, the byte order mark and an astral character:
\* code points whose UTF-8 forms have one, two, three and four bytes
MemoCodePoints == {0, 97, 233, BOM, 127775}

Memos == UNION {[1 .. n -> MemoCodePoints] : n \in 0 .. MaxMemoChars}

\* memo.test.ts round-trip: decodeMemo(encodeMemo(original))
ApplyMemo(memo) ==
  /\ applied = NotApplied
  /\ applied' = [op |-> "memo", memo |-> memo, felts |-> encodeMemo(memo),
                 decoded |-> decodeMemo(encodeMemo(memo))]
  /\ UNCHANGED <<scanVars, chainVars>>

\* felt arrays handed to decodeMemo: empty, a zero length, lengths with too
\* few and too many chunks
MemoFelts == UNION {[1 .. n -> {0, 2, 5}] : n \in 0 .. 2}

ApplyDecodeMemo(felts) ==
  /\ applied = NotApplied
  /\ applied' = [op |-> "decodeMemo", felts |-> felts, decoded |-> decodeMemo(felts)]
  /\ UNCHANGED <<scanVars, chainVars>>

\* memos of a payment link: letters, digits and the characters "&", " ", "%"
LinkMemos ==
  {Undefined} \cup UNION {[1 .. n -> {"a", "2", "5", "&", " ", "%"}] : n \in 0 .. MaxMemoChars}

LinkParams ==
  [metaAddress : {encodeMetaAddressFromPubKeys(2, 26)},
   tokenAddress : {Undefined, <<"0", "x", "d", "e">>},
   amount : {UndefinedAmount, 0, 25},
   memo : LinkMemos]

\* payment-link.test.ts round-trip: parsePaymentLink(generatePaymentLink(original))
ApplyPaymentLink(params) ==
  /\ applied = NotApplied
  /\ applied' = [op |-> "paymentLink", params |-> params, link |-> generatePaymentLink(params),
                 parsed |-> parsePaymentLink(generatePaymentLink(params))]
  /\ UNCHANGED <<scanVars, chainVars>>

\* meta-address.test.ts "should round-trip encode and parse"
ApplyMetaAddress(spendingPubKey, viewingPubKey) ==
  /\ applied = NotApplied
  /\ applied' = [op |-> "metaAddress", spendingPubKey |-> spendingPubKey,
                 viewingPubKey |-> viewingPubKey,
                 encoded |-> encodeMetaAddressFromPubKeys(spendingPubKey, viewingPubKey),
                 parsed |-> parseMetaAddress(
                              encodeMetaAddressFromPubKeys(spendingPubKey, viewingPubKey))]
  /\ UNCHANGED <<scanVars, chainVars>>

\* strings handed to the parsers: three to five parts joined by colons, the
\* values well formed, out of range, zero, empty, no hex, or followed by a space
FeltStrings ==
  {<<"0", "x", "2">>, <<"2">>, <<"0", "x", "0", "0", "2">>, <<"0", "x", "1", "F">>,
   <<"0", "x", "2", "0">>, <<"0", "x", "0">>, <<"0", "x">>, <<>>, <<"0", "x", "g">>,
   <<"0", "x", "2", " ">>, <<"2", "5">>}

PartLists ==
  UNION {{<<prefix, chain, first>>, <<prefix, chain, first, second>>,
          <<prefix, chain, first, second, first>>} :
           prefix \in {META_ADDRESS_PREFIX, VIEWING_KEY_PREFIX},
           chain \in {CHAIN_ID, <<"e", "t", "h">>},
           first \in FeltStrings, second \in FeltStrings}

RECURSIVE JoinColon(_)
JoinColon(parts) ==
  IF Len(parts) = 1 THEN parts[1] ELSE parts[1] \o Colon \o JoinColon(Tail(parts))

\* meta-address.test.ts parseMetaAddress on strings of any form
ApplyParseMetaAddress(parts) ==
  /\ applied = NotApplied
  /\ applied' = [op |-> "parseMetaAddress", parts |-> parts,
                 parsed |-> parseMetaAddress(JoinColon(parts))]
  /\ UNCHANGED <<scanVars, chainVars>>

\* viewing-key.test.ts importViewingKey / isValidViewingKey on strings of any form
ApplyImportViewingKey(parts) ==
  /\ applied = NotApplied
  /\ applied' = [op |-> "importViewingKey", parts |-> parts,
                 imported |-> importViewingKey(JoinColon(parts)),
                 valid |-> isValidViewingKey(JoinColon(parts))]
  /\ UNCHANGED <<scanVars, chainVars>>

\* address strings: "0x" or "0X", then zeros and digits in lower and upper case
AddressStrings ==
  {prefix \o digits :
     prefix \in {<<"0", "x">>, <<"0", "X">>},
     digits \in UNION {[1 .. n -> {"0", "a", "A"}] : n \in 0 .. MaxHexDigits}}

\* normalizeAddress applied to two addresses, and once more to its result
ApplyNormalizeAddress(first, second) ==
  /\ applied = NotApplied
  /\ applied' = [op |-> "normalizeAddress", first |-> first, second |-> second,
                 canonicalFirst |-> normalizeAddress(first),
                 canonicalSecond |-> normalizeAddress(second),
                 twice |-> normalizeAddress(normalizeAddress(first))]
  /\ UNCHANGED <<scanVars, chainVars>>

NextCodec ==
  \/ \E memo \in Memos : ApplyMemo(memo)
  \/ \E felts \in MemoFelts : ApplyDecodeMemo(felts)
  \/ \E spendingPubKey, viewingPubKey \in 0 .. (MAX_FELT - 1) :
       ApplyMetaAddress(spendingPubKey, viewingPubKey)
  \/ \E parts \in PartLists : ApplyParseMetaAddress(parts)
  \/ \E parts \in PartLists : ApplyImportViewingKey(parts)
  \/ \E first, second \in AddressStrings : ApplyNormalizeAddress(first, second)
  \/ \E params \in LinkParams : ApplyPaymentLink(params)

SpecCodec == Init /\ [][NextCodec]_vars

\* ------------------------------------------------------------------------
\* The calls a sender builds: buildSendCalls, buildBatchSendCalls, batchSend
\* ------------------------------------------------------------------------
\* the two recipients a sender pays, each with keys of its own
PayeeKeys == [A |-> generateKeys(1, 2), B |-> generateKeys(2, 1)]

\* every amount of a u256, below and above 2^128
Amounts == 0 .. (UINT128 * UINT128 - 1)

ExtraMetadata == {<<>>, <<9>>}

BatchPayments ==
  {[metaAddress |-> encodeMetaAddress(PayeeKeys[id]), tokenAddress |-> TOKEN_ADDRESS,
    amount |-> amount, metadata |-> <<>>] : id \in Recipients, amount \in {1, UINT128 + 1}}

Batches == UNION {[1 .. n -> BatchPayments] : n \in 0 .. MaxPayments}

\* buildSendCalls on a stealth address derived for recipient A
ApplyBuildSendCalls(rawKey, amount, metadata) ==
  /\ applied = NotApplied
  /\ LET Built(stealthResult) ==
           /\ stealthResult # ErrResult
           /\ applied' = [op |-> "buildSendCalls", tokenAddress |-> TOKEN_ADDRESS,
                          amount |-> amount, stealthResult |-> stealthResult,
                          metadata |-> metadata,
                          calls |-> buildSendCalls(TOKEN_ADDRESS, amount, stealthResult, metadata)]
     IN  Built(AmoraGenerateStealthAddress(encodeMetaAddress(PayeeKeys["A"]), rawKey))
  /\ UNCHANGED <<scanVars, chainVars>>

\* Amora.batchSend(account, payments): buildBatchSendCalls, then one
\* account.execute of all the calls; a throw while building submits nothing
BatchSend(payments, rawKeys) ==
  /\ applied = NotApplied
  /\ LET Submitted(built, chain) ==
           /\ applied' = [op |-> "batchSend", payments |-> payments, built |-> built,
                          reverted |-> chain = Reverted]
           /\ storage' = IF chain = Reverted THEN storage ELSE chain.storage
           /\ events' = IF chain = Reverted THEN events ELSE chain.events
         Built(built) ==
           IF built = ErrResult
           THEN applied' = [op |-> "batchSend", payments |-> payments, built |-> built,
                            reverted |-> FALSE]
                /\ UNCHANGED chainVars
           ELSE Submitted(built, Execute([storage |-> storage, events |-> events],
                                         AccountOf["sender"], built.calls))
     IN  Built(buildBatchSendCalls(payments, rawKeys))
  /\ UNCHANGED scanVars

NextCalls ==
  \/ \E rawKey \in RawKeys, amount \in Amounts, metadata \in ExtraMetadata :
       ApplyBuildSendCalls(rawKey, amount, metadata)
  \/ \E payments \in Batches : \E rawKeys \in [1 .. Len(payments) -> RawKeys] :
       BatchSend(payments, rawKeys)

SpecCalls == Init /\ [][NextCalls]_vars

\* ------------------------------------------------------------------------
\* Amora.deployAndWithdraw, await by await.  applied is the call: its
\* position, its locals and the accounts deployed on the chain; sent is the
\* log of the requests made to the chain client, each pending until the node
\* answers it or fails it
\* ------------------------------------------------------------------------
DESTINATION_ADDRESS == <<"0", "x", "d">>

WithdrawAmounts == {1, UINT128 + 1, All}

Balances ==
  {[shape |-> "array", parts |-> <<3, 1>>],
   [shape |-> "u256", parts |-> <<3, 1>>],
   [shape |-> "bigint", parts |-> <<3>>]}

\* the request at the end of the log is answered or fails
Answered(status) == [sent EXCEPT ![Len(sent)].status = status]

Thrown == [applied EXCEPT !.pc = "THROWN", !.outcome = ErrResult]

\* steps 1 and 2, up to the first await
BeginWithdraw(stealthPrivateKey, amount, alreadyDeployed) ==
  /\ applied = NotApplied
  /\ LET Called(stealthPubKey, stealthAddress) ==
           applied' = [op |-> "deployAndWithdraw", pc |-> "isAccountDeployed",
                       stealthPrivateKey |-> stealthPrivateKey, stealthPubKey |-> stealthPubKey,
                       stealthAddress |-> stealthAddress, amount |-> amount,
                       withdrawAmount |-> NotComputed, alreadyDeployed |-> alreadyDeployed,
                       deployed |-> IF alreadyDeployed THEN {BigIntOfString(stealthAddress)} ELSE {},
                       outcome |-> Pending]
         WithKey(stealthPubKey) ==
           Called(stealthPubKey, computeStealthContractAddress(stealthPubKey, ACCOUNT_CLASS_HASH))
     IN  WithKey(derivePublicKey(stealthPrivateKey))
  /\ UNCHANGED <<keys, announcements, sent, scanned, chainVars>>

\* await this.provider.getClassHashAt(address), sent
RequestClassHash ==
  /\ applied.op = "deployAndWithdraw" /\ applied.pc = "isAccountDeployed"
  /\ sent' = Append(sent, [request |-> "getClassHashAt", address |-> applied.stealthAddress,
                            status |-> "pending"])
  /\ applied' = [applied EXCEPT !.pc = "awaitClassHash"]
  /\ UNCHANGED <<keys, announcements, scanned, chainVars>>

\* the node answers with the class hash of the address or fails the request;
\* then steps 4 and 5 up to the next await
AnswerClassHash(failed) ==
  /\ applied.op = "deployAndWithdraw" /\ applied.pc = "awaitClassHash"
  /\ sent' = Answered(IF failed THEN "failed" ELSE "answered")
  /\ LET Continue(isDeployed) ==
           applied' =
             IF ~isDeployed THEN [applied EXCEPT !.pc = "deployStealthAccount"]
             ELSE IF applied.amount = All THEN [applied EXCEPT !.pc = "balanceOf"]
             ELSE [applied EXCEPT !.pc = "execute", !.withdrawAmount = applied.amount]
     IN  Continue(isAccountDeployed(
           IF failed THEN ErrResult
           ELSE [classHash |-> IF BigIntOfString(applied.stealthAddress) \in applied.deployed
                               THEN ACCOUNT_CLASS_HASH ELSE 0]))
  /\ UNCHANGED <<keys, announcements, scanned, chainVars>>

\* await this.deployStealthAccount(stealthPrivateKey, stealthPubKey), sent
RequestDeploy ==
  /\ applied.op = "deployAndWithdraw" /\ applied.pc = "deployStealthAccount"
  /\ LET Deploy(deployment) ==
           sent' = Append(sent, [request |-> "deployAccount", account |-> deployment.account,
                                 signer |-> deployment.signer, payload |-> deployment.payload,
                                 status |-> "pending"])
     IN  Deploy(deployStealthAccount(applied.stealthPrivateKey, applied.stealthPubKey))
  /\ applied' = [applied EXCEPT !.pc = "awaitDeploy"]
  /\ UNCHANGED <<keys, announcements, scanned, chainVars>>

\* the node accepts the deployment, unless the address holds an account
\* already, or fails the request
AnswerDeploy(failed) ==
  /\ applied.op = "deployAndWithdraw" /\ applied.pc = "awaitDeploy"
  /\ LET Deployed(address) ==
           IF failed \/ address \in applied.deployed
           THEN sent' = Answered("failed") /\ applied' = Thrown
           ELSE /\ sent' = Answered("answered")
                /\ applied' =
                     IF applied.amount = All
                     THEN [applied EXCEPT !.pc = "balanceOf", !.deployed = @ \cup {address}]
                     ELSE [applied EXCEPT !.pc = "execute", !.deployed = @ \cup {address},
                                          !.withdrawAmount = applied.amount]
     IN  Deployed(DeployAccountAddress(sent[Len(sent)].payload))
  /\ UNCHANGED <<keys, announcements, scanned, chainVars>>

\* await tokenContract.call("balanceOf", [stealthAddress]), sent
RequestBalance ==
  /\ applied.op = "deployAndWithdraw" /\ applied.pc = "balanceOf"
  /\ sent' = Append(sent, [request |-> "balanceOf", contractAddress |-> TOKEN_ADDRESS,
                            address |-> applied.stealthAddress, status |-> "pending",
                            answer |-> Pending])
  /\ applied' = [applied EXCEPT !.pc = "awaitBalance"]
  /\ UNCHANGED <<keys, announcements, scanned, chainVars>>

AnswerBalance(failed, balance) ==
  /\ applied.op = "deployAndWithdraw" /\ applied.pc = "awaitBalance"
  /\ IF failed
     THEN sent' = Answered("failed") /\ applied' = Thrown
     ELSE /\ sent' = [sent EXCEPT ![Len(sent)].status = "answered", ![Len(sent)].answer = balance]
          /\ applied' = [applied EXCEPT !.pc = "execute", !.withdrawAmount = BalanceValue(balance)]
  /\ UNCHANGED <<keys, announcements, scanned, chainVars>>

\* return stealthAccount.execute([transferCall]), sent
RequestExecute ==
  /\ applied.op = "deployAndWithdraw" /\ applied.pc = "execute"
  /\ sent' = Append(sent, [request |-> "execute", account |-> applied.stealthAddress,
                            signer |-> ToString10(applied.stealthPrivateKey),
                            calls |-> <<WithdrawCall(TOKEN_ADDRESS, DESTINATION_ADDRESS,
                                                     applied.withdrawAmount)>>,
                            status |-> "pending"])
  /\ applied' = [applied EXCEPT !.pc = "awaitExecute"]
  /\ UNCHANGED <<keys, announcements, scanned, chainVars>>

\* the node accepts the transaction of a deployed account, or fails it
AnswerExecute(failed) ==
  /\ applied.op = "deployAndWithdraw" /\ applied.pc = "awaitExecute"
  /\ IF failed \/ BigIntOfString(sent[Len(sent)].account) \notin applied.deployed
     THEN sent' = Answered("failed") /\ applied' = Thrown
     ELSE /\ sent' = Answered("answered")
          /\ applied' = [applied EXCEPT !.pc = "RETURNED", !.outcome = [transaction_hash |-> Len(sent)]]
  /\ UNCHANGED <<keys, announcements, scanned, chainVars>>

NextWithdraw ==
  \/ \E stealthPrivateKey \in Scalars, amount \in WithdrawAmounts, alreadyDeployed \in BOOLEAN :
       BeginWithdraw(stealthPrivateKey, amount, alreadyDeployed)
  \/ RequestClassHash
  \/ \E failed \in BOOLEAN : AnswerClassHash(failed)
  \/ RequestDeploy
  \/ \E failed \in BOOLEAN : AnswerDeploy(failed)
  \/ RequestBalance
  \/ \E failed \in BOOLEAN, balance \in Balances : AnswerBalance(failed, balance)
  \/ RequestExecute
  \/ \E failed \in BOOLEAN : AnswerExecute(failed)

SpecWithdraw == Init /\ [][NextWithdraw]_vars

\* ------------------------------------------------------------------------
\* One announcement through verifyAndComputeStealthKey (full) or through one
\* iteration of scanWithViewingKey (watch), statement by statement; applied
\* holds the position in the code and the values computed so far
\* ------------------------------------------------------------------------
\* what the senders of the model announce, for A and for B
SentResults ==
  {generateStealthAddress(MetaAddressOf(PayeeKeys[id]), ACCOUNT_CLASS_HASH, rawKey) :
     id \in Recipients, rawKey \in RawKeys} \ {ErrResult}

\* announcements as sent and with another address spelling, another address,
\* an ephemeral key off the curve and every view tag
VerifyAnnouncements ==
  UNION {{[stealthAddress |-> stealthAddress, ephemeralPubKey |-> ephemeralPubKey,
           viewTag |-> viewTag, metadata |-> <<>>] :
            stealthAddress \in {result.stealthAddress, PaddedUpper(result.stealthAddress),
                                computeStealthContractAddress((result.stealthPubKey + 1) % FIELD_PRIME,
                                                              ACCOUNT_CLASS_HASH)},
            ephemeralPubKey \in {result.ephemeralPubKey, OFF_CURVE_X},
            viewTag \in 0 .. (VIEW_TAG_MODULUS - 1)} : result \in SentResults}

\* the functions the statements call, tabulated once over the field for
\* recipient A's keys
SharedSecretOf ==
  [ephemeralPubKey \in Felts |-> ecdh(PayeeKeys["A"].viewingKey.privateKey, ephemeralPubKey)]

ViewTagOf == [sharedSecret \in Felts |-> computeViewTag(sharedSecret)]

StealthPubKeyOf ==
  [sharedSecret \in Felts |->
     computeStealthPublicKey(PayeeKeys["A"].spendingKey.publicKey, sharedSecret)]

NormalizedAddressOf ==
  [stealthPubKey \in Felts |->
     normalizeAddress(computeStealthContractAddress(stealthPubKey, ACCOUNT_CLASS_HASH))]

StealthPrivateKeyOf ==
  [sharedSecret \in Felts |->
     computeStealthPrivateKey(PayeeKeys["A"].spendingKey.privateKey, sharedSecret)]

\* the call: recipient A's keys, nothing computed
BeginVerify(mode, announcement) ==
  /\ applied = NotApplied
  /\ applied' = [op |-> "verify", mode |-> mode, pc |-> "INITIAL", announcement |-> announcement,
                 sharedSecret |-> NotComputed, stealthPubKey |-> NotComputed,
                 expectedAddress |-> Undefined, stealthPrivateKey |-> NotComputed,
                 result |-> Pending]
  /\ UNCHANGED <<scanVars, chainVars>>

\* const sharedSecret = ecdh(viewingPrivateKey, announcement.ephemeralPubKey)
ComputeSharedSecret ==
  /\ applied.op = "verify" /\ applied.pc = "INITIAL"
  /\ applied' = IF SharedSecretOf[applied.announcement.ephemeralPubKey] = Err
                THEN [applied EXCEPT !.pc = "THROWN", !.result = ErrResult]
                ELSE [applied EXCEPT !.pc = "VIEW_TAG_CHECK",
                                     !.sharedSecret = SharedSecretOf[applied.announcement.ephemeralPubKey]]
  /\ UNCHANGED <<scanVars, chainVars>>

\* if (expectedViewTag !== announcement.viewTag) return null / continue
CheckViewTag ==
  /\ applied.op = "verify" /\ applied.pc = "VIEW_TAG_CHECK"
  /\ applied' = IF ViewTagOf[applied.sharedSecret] # applied.announcement.viewTag
                THEN [applied EXCEPT !.pc = "NO_MATCH", !.result = Null]
                ELSE [applied EXCEPT !.pc = "RECONSTRUCT_ADDRESS"]
  /\ UNCHANGED <<scanVars, chainVars>>

\* ReconstructAddress that derives the stealth private key before it compares
\* the addresses
ReconstructAddressDeriving ==
  /\ applied.op = "verify" /\ applied.pc = "RECONSTRUCT_ADDRESS"
  /\ applied' =
       IF StealthPubKeyOf[applied.sharedSecret] = Err
       THEN [applied EXCEPT !.pc = "THROWN", !.result = ErrResult]
       ELSE IF NormalizedAddressOf[StealthPubKeyOf[applied.sharedSecret]]
                 # normalizeAddress(applied.announcement.stealthAddress)
       THEN [applied EXCEPT !.pc = "NO_MATCH", !.result = Null,
                            !.stealthPubKey = StealthPubKeyOf[applied.sharedSecret],
                            !.expectedAddress = NormalizedAddressOf[StealthPubKeyOf[applied.sharedSecret]],
                            !.stealthPrivateKey = StealthPrivateKeyOf[applied.sharedSecret]]
       ELSE [applied EXCEPT !.pc = "DERIVE_SPENDING_KEY",
                            !.stealthPubKey = StealthPubKeyOf[applied.sharedSecret],
                            !.expectedAddress = NormalizedAddressOf[StealthPubKeyOf[applied.sharedSecret]],
                            !.stealthPrivateKey = StealthPrivateKeyOf[applied.sharedSecret]]
  /\ UNCHANGED <<scanVars, chainVars>>

\* stealthPubKey, expectedAddress, and the comparison of the normalized
\* addresses; the watch-only loop pushes its match here
ReconstructAddress ==
  /\ applied.op = "verify" /\ applied.pc = "RECONSTRUCT_ADDRESS"
  /\ applied' =
       IF StealthPubKeyOf[applied.sharedSecret] = Err
       THEN [applied EXCEPT !.pc = "THROWN", !.result = ErrResult]
       ELSE IF NormalizedAddressOf[StealthPubKeyOf[applied.sharedSecret]]
                 # normalizeAddress(applied.announcement.stealthAddress)
       THEN [applied EXCEPT !.pc = "NO_MATCH", !.result = Null,
                            !.stealthPubKey = StealthPubKeyOf[applied.sharedSecret],
                            !.expectedAddress = NormalizedAddressOf[StealthPubKeyOf[applied.sharedSecret]]]
       ELSE IF applied.mode = "watch"
       THEN [applied EXCEPT !.pc = "MATCH",
                            !.stealthPubKey = StealthPubKeyOf[applied.sharedSecret],
                            !.expectedAddress = NormalizedAddressOf[StealthPubKeyOf[applied.sharedSecret]],
                            !.result = [announcement |-> applied.announcement,
                                        sharedSecret |-> applied.sharedSecret,
                                        stealthPubKey |-> StealthPubKeyOf[applied.sharedSecret]]]
       ELSE [applied EXCEPT !.pc = "DERIVE_SPENDING_KEY",
                            !.stealthPubKey = StealthPubKeyOf[applied.sharedSecret],
                            !.expectedAddress = NormalizedAddressOf[StealthPubKeyOf[applied.sharedSecret]]]
  /\ UNCHANGED <<scanVars, chainVars>>

\* const stealthPrivateKey = computeStealthKey(spendingPrivateKey, sharedSecret)
\* and the return of the StealthPayment
DeriveSpendingKey ==
  /\ applied.op = "verify" /\ applied.pc = "DERIVE_SPENDING_KEY"
  /\ applied' = [applied EXCEPT !.pc = "MATCH",
                                !.stealthPrivateKey = StealthPrivateKeyOf[applied.sharedSecret],
                                !.result = [announcement |-> applied.announcement,
                                            sharedSecret |-> applied.sharedSecret,
                                            stealthPrivateKey |-> StealthPrivateKeyOf[applied.sharedSecret],
                                            stealthPubKey |-> applied.stealthPubKey]]
  /\ UNCHANGED <<scanVars, chainVars>>

NextVerify ==
  \/ \E mode \in {"full", "watch"}, announcement \in VerifyAnnouncements :
       BeginVerify(mode, announcement)
  \/ ComputeSharedSecret
  \/ CheckViewTag
  \/ ReconstructAddress
  \/ DeriveSpendingKey

\* the function is synchronous code: once called it runs to its return
SpecVerify ==
  /\ Init /\ [][NextVerify]_vars
  /\ WF_vars(ComputeSharedSecret) /\ WF_vars(CheckViewTag)
  /\ WF_vars(ReconstructAddress) /\ WF_vars(DeriveSpendingKey)

\* ------------------------------------------------------------------------
\* Properties
\* ------------------------------------------------------------------------
\* what a scan needs from an announcement to report it, computed from the
\* primitives: the view tag of the shared secret and the reconstructed address
ViewTagMatches(ann, k) ==
  computeViewTag(ecdh(k.viewingKey.privateKey, ann.ephemeralPubKey)) = ann.viewTag

ReconstructedAddress(ann, k) ==
  computeStealthContractAddress(
    computeStealthPublicKey(k.spendingKey.publicKey,
                            ecdh(k.viewingKey.privateKey, ann.ephemeralPubKey)),
    ACCOUNT_CLASS_HASH)

AddressMatches(ann, k) ==
  normalizeAddress(ReconstructedAddress(ann, k)) = normalizeAddress(ann.stealthAddress)

ScanReturned == scanned.kind # "none" /\ scanned.result # ScanErr

FullScanReturned == scanned.kind = "full" /\ scanned.result # ScanErr

AnnouncementsOf(result) == [i \in 1 .. Len(result) |-> result[i].announcement]

\* C1: every StealthPayment a full scan returns carries a stealth private key
\* whose public key is the payment's stealthPubKey, and the contract address of
\* that stealthPubKey is the announced address after canonicalization
C1_PaymentKeyOpensAddress ==
  FullScanReturned =>
    \A i \in 1 .. Len(scanned.result) :
      /\ derivePublicKey(scanned.result[i].stealthPrivateKey) = scanned.result[i].stealthPubKey
      /\ normalizeAddress(computeStealthContractAddress(scanned.result[i].stealthPubKey,
                                                        ACCOUNT_CLASS_HASH))
           = normalizeAddress(scanned.result[i].announcement.stealthAddress)

\* C2: for three fresh keys the sender's and the recipient's shared secret
\* agree, and the public key of the stealth private key is the stealth public key
C2_StealthRoundTrip ==
  applied.op = "stealthKeys" =>
    /\ applied.senderSharedSecret # Err
    /\ applied.senderSharedSecret = applied.recipientSharedSecret
    /\ applied.derivedStealthPublic # Err
    /\ applied.derivedStealthPublic = applied.stealthPubKey

\* C5: every KeyPair the library produced has publicKey = x(privateKey*G) and
\* an even y(privateKey*G)
KeyPairNormalized(kp) ==
  /\ kp.publicKey = XOf(FromPrivateKey(kp.privateKey))
  /\ FromPrivateKey(kp.privateKey)[2] % 2 = 0

C5_KeyPairsNormalized ==
  \A id \in Recipients :
    keys[id] # NoKeys =>
      KeyPairNormalized(keys[id].spendingKey) /\ KeyPairNormalized(keys[id].viewingKey)

\* C8: ecdh(a, B) = ecdh(b, A) for all private keys a, b, normalized or not
C8_EcdhSymmetric ==
  applied.op = "ecdh" => applied.sharedA # Err /\ applied.sharedA = applied.sharedB

C8_Witness ==
  /\ applied.op = "ecdh"
  /\ applied.a # applied.b
  /\ normalizePrivateKey(applied.a) # applied.a
  /\ normalizePrivateKey(applied.b) = applied.b
  /\ applied.sharedA = applied.sharedB

\* C9: normalizePrivateKey is idempotent, its result has an even y, and it is
\* k or N - k: a valid scalar with the public key of k
C9_NormalizeParity ==
  applied.op = "normalizePrivateKey" =>
    /\ applied.twice = applied.once
    /\ FromPrivateKey(applied.once)[2] % 2 = 0
    /\ applied.once \in {applied.privateKey, CURVE_ORDER - applied.privateKey}
    /\ applied.once \in Scalars
    /\ derivePublicKey(applied.once) = derivePublicKey(applied.privateKey)

C9_Witness ==
  /\ applied.op = "normalizePrivateKey"
  /\ applied.once = CURVE_ORDER - applied.privateKey
  /\ applied.twice = applied.once

\* the announcements of the scanned sequence that senders made for recipient
\* id with generateStealthAddress, and the results those senders hold
NoneAltered == \A i \in 1 .. Len(sent) : sent[i].altered = "no"

MadeFor(id) == {i \in 1 .. Len(sent) : sent[i].to = id /\ sent[i].altered = "no"}

RECURSIVE SenderPubKeys(_, _)
SenderPubKeys(id, i) ==
  IF i > Len(sent) THEN <<>>
  ELSE (IF i \in MadeFor(id) THEN <<sent[i].result.stealthPubKey>> ELSE <<>>)
         \o SenderPubKeys(id, i + 1)

StealthPubKeysOf(result) == [i \in 1 .. Len(result) |-> result[i].stealthPubKey]

DifferentRecipients ==
  /\ keys["A"] # NoKeys /\ keys["B"] # NoKeys
  /\ MetaAddressOf(keys["A"]) # MetaAddressOf(keys["B"])

\* s is a subsequence of t: it embeds into t by a strictly increasing map
RECURSIVE IsSubsequence(_, _)
IsSubsequence(s, t) ==
  IF s = <<>> THEN TRUE
  ELSE IF t = <<>> THEN FALSE
  ELSE IF Head(s) = Head(t) THEN IsSubsequence(Tail(s), Tail(t))
  ELSE IsSubsequence(s, Tail(t))

\* C3 as stated: a scan over announcements made with generateStealthAddress,
\* k of them for the scanning recipient A and the others for B, returns
\* exactly k payments, carrying the stealth public keys the senders computed
C3_ScanReturnsExactlyOwn ==
  (scanned.kind = "full" /\ NoneAltered /\ DifferentRecipients) =>
    /\ scanned.result # ScanErr
    /\ StealthPubKeysOf(scanned.result) = SenderPubKeys("A", 1)

ReconstructionFails(ann, k) ==
  computeStealthPublicKey(k.spendingKey.publicKey,
                          ecdh(k.viewingKey.privateKey, ann.ephemeralPubKey)) = Err

\* C3 amended: an announcement made for A, scanned alone or among other
\* announcements for A, is always matched: the scan returns exactly one
\* payment per announcement, with the sender's stealth public key; mixed with
\* announcements for B the scan, when it returns, returns those payments in
\* input order, and any further payment belongs to an announcement for B whose
\* address is the one A's keys reconstruct; the scan raises an error only at
\* an announcement for B that passes A's view tag while the hash of A's shared
\* secret is no scalar of [1, N-1]
C3_ScanCompleteness ==
  (scanned.kind = "full" /\ NoneAltered) =>
    /\ scanned.result = ScanErr =>
         \E i \in MadeFor("B") : /\ ViewTagMatches(scanned.input[i], keys["A"])
                                  /\ ReconstructionFails(scanned.input[i], keys["A"])
    /\ MadeFor("B") = {} =>
         /\ scanned.result # ScanErr
         /\ StealthPubKeysOf(scanned.result) = SenderPubKeys("A", 1)
    /\ scanned.result # ScanErr =>
         /\ IsSubsequence(SenderPubKeys("A", 1), StealthPubKeysOf(scanned.result))
         /\ Len(scanned.result) =
              Cardinality(MadeFor("A")
                \cup {i \in MadeFor("B") : /\ ViewTagMatches(scanned.input[i], keys["A"])
                                           /\ AddressMatches(scanned.input[i], keys["A"])})

C3_Witness ==
  /\ scanned.kind = "full" /\ NoneAltered /\ DifferentRecipients
  /\ scanned.result # ScanErr
  /\ Len(scanned.input) = 2
  /\ Cardinality(MadeFor("A")) = 1 /\ Cardinality(MadeFor("B")) = 1
  /\ Len(scanned.result) = 1
  /\ scanned.result[1].stealthPubKey = SenderPubKeys("A", 1)[1]

\* C4 as stated: an announcement made for B is never returned by a scan,
\* full or watch-only, with the keys of a different recipient A
C4_NeverReturnedToOther ==
  (ScanReturned /\ DifferentRecipients) =>
    \A i \in MadeFor("B") :
      \A j \in 1 .. Len(scanned.result) : scanned.result[j].announcement # scanned.input[i]

\* C4 amended: an announcement made for B is returned by a scan with A's keys
\* only if the stealth address reconstructed from A's keys equals the
\* announced one; passing A's view tag alone never yields a match
C4_ReturnedOnlyOnAddressMatch ==
  (ScanReturned /\ DifferentRecipients) =>
    \A i \in MadeFor("B") :
      (\E j \in 1 .. Len(scanned.result) : scanned.result[j].announcement = scanned.input[i])
        => /\ ViewTagMatches(scanned.input[i], keys["A"])
           /\ AddressMatches(scanned.input[i], keys["A"])

\* an announcement for B passes A's view tag, fails the address check and is
\* left out of the result
C4_Witness ==
  /\ ScanReturned /\ DifferentRecipients
  /\ \E i \in MadeFor("B") :
       /\ ViewTagMatches(scanned.input[i], keys["A"])
       /\ ~AddressMatches(scanned.input[i], keys["A"])
       /\ \A j \in 1 .. Len(scanned.result) : scanned.result[j].announcement # scanned.input[i]

MatchesKeysOfA(ann) == ViewTagMatches(ann, keys["A"]) /\ AddressMatches(ann, keys["A"])

\* C6: scanAnnouncements returns, in input order, one payment for each input
\* announcement whose view tag is the recomputed one and whose address is the
\* reconstructed one after canonicalization, and for no other; each payment
\* carries its input announcement, and the input sequence stays as it was
C6_ScanIsOrderedFilter ==
  FullScanReturned =>
    /\ AnnouncementsOf(scanned.result) = SelectSeq(scanned.input, MatchesKeysOfA)
    /\ announcements = scanned.input

\* two announcements, the first rejected although it passes the view tag or
\* accepted in a non-canonical spelling, the second accepted
C6_Witness ==
  /\ FullScanReturned
  /\ Len(scanned.input) = 2
  /\ Len(scanned.result) = 1
  /\ scanned.result[1].announcement = scanned.input[2]
  /\ ViewTagMatches(scanned.input[1], keys["A"])

WithoutPrivateKey(result) ==
  IF result = ScanErr THEN ScanErr
  ELSE [i \in 1 .. Len(result) |->
          [announcement |-> result[i].announcement, sharedSecret |-> result[i].sharedSecret,
           stealthPubKey |-> result[i].stealthPubKey]]

\* C7: the watch-only scan with the exported and re-imported viewing key
\* returns the matches of the full scan (announcement, sharedSecret and
\* stealthPubKey, in the same order), whatever the spending private key is
C7_WatchOnlyEquivalence ==
  /\ scanned.kind = "watch" =>
       \A spendingPrivateKey \in Scalars :
         scanned.result =
           WithoutPrivateKey(scanAnnouncements(scanned.input, keys["A"].viewingKey.privateKey,
                               keys["A"].spendingKey.publicKey, spendingPrivateKey,
                               ACCOUNT_CLASS_HASH))
  /\ scanned.kind = "full" =>
       WithoutPrivateKey(scanned.result) =
         scanWithViewingKey(scanned.input, importViewingKey(exportViewingKey(keys["A"])),
                            ACCOUNT_CLASS_HASH)

C7_Witness ==
  /\ scanned.kind = "watch"
  /\ scanned.result # ScanErr
  /\ Len(scanned.input) = 2
  /\ Len(scanned.result) = 1

\* the block range of the last query holds block n
RangeHolds(n) ==
  /\ scanned.fromBlock <= n
  /\ scanned.toBlock = Latest \/ n <= scanned.toBlock.block_number

\* the announcement the sender of sent[i] handed to announce
Announced(i) ==
  [stealthAddress |-> sent[i].result.stealthAddress,
   ephemeralPubKey |-> sent[i].result.ephemeralPubKey,
   viewTag |-> sent[i].result.viewTag,
   metadata |-> <<BigIntOfString(TOKEN_ADDRESS), sent[i].amount>> \o sent[i].metadata]

Carries(fetched, announced) ==
  /\ normalizeAddress(fetched.stealthAddress) = normalizeAddress(announced.stealthAddress)
  /\ fetched.ephemeralPubKey = announced.ephemeralPubKey
  /\ fetched.viewTag = announced.viewTag
  /\ fetched.metadata = announced.metadata

\* C10: after one send to recipient A, a scan with A's keys over a block range
\* holding the send fetches an Announcement with the address, ephemeral key,
\* view tag and metadata the sender announced, and returns exactly one payment,
\* whose stealth private key derives the stealthPubKey the sender computed
C10_EndToEnd ==
  (scanned.kind = "chain" /\ Len(sent) = 1 /\ sent[1].to = "A" /\ RangeHolds(sent[1].block)) =>
    /\ \E i \in 1 .. Len(scanned.input) : Carries(scanned.input[i], Announced(1))
    /\ scanned.result # ScanErr
    /\ Len(scanned.result) = 1
    /\ derivePublicKey(scanned.result[1].stealthPrivateKey) = sent[1].result.stealthPubKey

\* x is the x-coordinate of a point of the curve y^2 = x^3 + ALPHA*x + BETA
IsCurveX(x) ==
  \E y \in 0 .. (FIELD_PRIME - 1) :
    (y * y) % FIELD_PRIME = (x * x * x + ALPHA * x + BETA) % FIELD_PRIME

\* C11: a scan, full or watch-only, over a sequence holding an announcement
\* whose ephemeralPubKey is the x of no curve point ends in an error; it never
\* skips that announcement and returns
C11_OffCurveEphemeralFails ==
  (scanned.kind \in {"full", "watch"}
     /\ \E i \in 1 .. Len(scanned.input) : ~IsCurveX(scanned.input[i].ephemeralPubKey))
    => scanned.result = ScanErr

\* a full scan over two announcements fails although the first is a payment
\* to the scanner, because the second carries an off-curve ephemeral key
C11_Witness ==
  /\ scanned.kind = "full"
  /\ Len(scanned.input) = 2
  /\ MatchesKeysOfA(scanned.input[1])
  /\ ~IsCurveX(scanned.input[2].ephemeralPubKey)
  /\ scanned.result = ScanErr

\* C12: decoding the felts of an encoded memo gives the memo back
C12_MemoRoundTrip ==
  applied.op = "memo" => applied.decoded = applied.memo

\* C13: parsing a generated payment link gives back the meta-address string,
\* the token address, the amount and the memo it was generated from
C13_PaymentLinkRoundTrip ==
  applied.op = "paymentLink" =>
    /\ applied.parsed # ErrResult
    /\ applied.parsed.metaAddressRaw = applied.params.metaAddress
    /\ applied.parsed.tokenAddress = applied.params.tokenAddress
    /\ applied.parsed.amount = applied.params.amount
    /\ applied.parsed.memo = applied.params.memo

\* str is a hex value: an optional "0x" and then one or more hex digits
IsHex(str) ==
  LET Digits(t) ==
        /\ t # <<>>
        /\ \A i \in 1 .. Len(t) : \E d \in 1 .. 16 : t[i] \in {HexDigits[d], UpperHexDigits[d]}
  IN  IF Len(str) >= 2 /\ str[1] = "0" /\ str[2] = "x"
      THEN Digits(SubSeq(str, 3, Len(str))) ELSE Digits(str)

\* the integer a hex value denotes
RECURSIVE HexNumber(_)
HexNumber(str) ==
  IF Len(str) >= 2 /\ str[2] \in {"x", "X"} THEN HexNumber(SubSeq(str, 3, Len(str)))
  ELSE IF str = <<>> THEN 0
  ELSE 16 * HexNumber(SubSeq(str, 1, Len(str) - 1))
         + (CHOOSE d \in 0 .. 15 : str[Len(str)] \in {HexDigits[d + 1], UpperHexDigits[d + 1]})

\* C14: an encoded meta-address parses to chain "starknet" and the two public
\* keys it was encoded from, for all keys below 2^252; a string that has not
\* exactly four parts, or another prefix than "st", or another chain than
\* "starknet", or a value that is no hex value below 2^252, is rejected
C14_MetaAddressCodec ==
  /\ applied.op = "metaAddress" =>
       applied.parsed = [chain |-> <<"s", "t", "a", "r", "k", "n", "e", "t">>,
                         spendingPubKey |-> applied.spendingPubKey,
                         viewingPubKey |-> applied.viewingPubKey]
  /\ (/\ applied.op = "parseMetaAddress"
      /\ \/ Len(applied.parts) # 4
         \/ applied.parts[1] # <<"s", "t">>
         \/ applied.parts[2] # <<"s", "t", "a", "r", "k", "n", "e", "t">>
         \/ \E i \in {3, 4} :
              ~IsHex(applied.parts[i]) \/ HexNumber(applied.parts[i]) >= MAX_FELT)
       => applied.parsed = ErrResult

\* C15: importViewingKey accepts a string only if it has exactly four parts,
\* the prefix "vk", the chain "starknet" and two hex values v with
\* 0 < v < 2^252; isValidViewingKey is false for every string it rejects
C15_ImportAcceptsOnlyValid ==
  applied.op = "importViewingKey" =>
    /\ applied.imported # ErrResult =>
         /\ Len(applied.parts) = 4
         /\ applied.parts[1] = <<"v", "k">>
         /\ applied.parts[2] = <<"s", "t", "a", "r", "k", "n", "e", "t">>
         /\ \A i \in {3, 4} :
              /\ IsHex(applied.parts[i])
              /\ HexNumber(applied.parts[i]) > 0
              /\ HexNumber(applied.parts[i]) < MAX_FELT
    /\ applied.imported = ErrResult => ~applied.valid

\* C16: the canonical form of a hex address is "0x" and the lower-case hex
\* digits of its number without leading zeros; two addresses of the same
\* number have the same canonical form, and canonicalizing twice changes nothing
C16_CanonicalAddress ==
  applied.op = "normalizeAddress" =>
    /\ applied.canonicalFirst =
         <<"0", "x">> \o (IF HexNumber(applied.first) = 0 THEN <<>>
                          ELSE ToString16(HexNumber(applied.first)))
    /\ HexNumber(applied.first) = HexNumber(applied.second)
         => applied.canonicalFirst = applied.canonicalSecond
    /\ applied.twice = applied.canonicalFirst

\* "0X0A" and "0xa" are different strings of one number and one canonical form
C16_Witness ==
  /\ applied.op = "normalizeAddress"
  /\ applied.first = <<"0", "X", "0", "A">>
  /\ applied.second = <<"0", "x", "a">>
  /\ applied.canonicalFirst = <<"0", "x", "a">>
  /\ applied.canonicalSecond = <<"0", "x", "a">>

\* the transactions in which caller registered keys and that were not reverted
RegistrationsOf(caller) ==
  {i \in 1 .. Len(sent) :
     /\ sent[i].call.entrypoint = "register_keys"
     /\ sent[i].call.caller = caller
     /\ ~sent[i].reverted}

LastRegistrationOf(caller) ==
  sent[CHOOSE i \in RegistrationsOf(caller) : \A j \in RegistrationsOf(caller) : j <= i].call.calldata

\* C17: for an address that never registered get_meta_address is (0, 0),
\* is_registered is false; otherwise get_meta_address is the pair of keys of
\* the address's latest successful register_keys, whatever other callers
\* registered or announced, is_registered is true and the SDK's getMetaAddress
\* is a MetaAddress of those keys
C17_RegistryLookup ==
  \A a \in ContractAddresses :
    IF RegistrationsOf(a) = {}
    THEN /\ get_meta_address(storage, a) = <<0, 0>>
         /\ ~is_registered(storage, a)
    ELSE /\ get_meta_address(storage, a) = LastRegistrationOf(a)
         /\ is_registered(storage, a)
         /\ isRegistered(storage, a)
         /\ getMetaAddress(storage, a) =
              [chain |-> <<"s", "t", "a", "r", "k", "n", "e", "t">>,
               spendingPubKey |-> LastRegistrationOf(a)[1],
               viewingPubKey |-> LastRegistrationOf(a)[2]]

\* A registers, B registers other keys, A registers anew: A's entry is the
\* third transaction's, B's the second's
C17_Witness ==
  /\ Len(sent) = 3
  /\ RegistrationsOf(5) = {1, 3}
  /\ RegistrationsOf(6) = {2}
  /\ sent[1].call.calldata = <<1, 3>>
  /\ sent[2].call.calldata = <<2, 3>>
  /\ sent[3].call.calldata = <<2, 3>>
  /\ get_meta_address(storage, 5) = <<2, 3>>
  /\ get_meta_address(storage, 6) = <<2, 3>>

\* a call to register_keys with a zero key, or to announce with a zero
\* stealth address or a zero ephemeral key
HasZeroArgument(call) == call.calldata[1] = 0 \/ call.calldata[2] = 0

\* C18: a register_keys or announce call with a zero argument fails, and a
\* call that fails leaves the stored keys and the event log as they were
C18_ZeroArgumentsRejected ==
  [][Len(sent') = Len(sent) + 1 =>
       /\ HasZeroArgument(sent'[Len(sent')].call) => sent'[Len(sent')].reverted
       /\ sent'[Len(sent')].reverted => storage' = storage /\ events' = events]_vars

\* after a registration and an announcement that went through, a registration
\* with a zero viewing key was reverted: one entry stored, two events emitted
C18_Witness ==
  /\ Len(sent) = 3
  /\ ~sent[1].reverted /\ sent[1].call.entrypoint = "register_keys"
  /\ ~sent[2].reverted /\ sent[2].call.entrypoint = "announce"
  /\ sent[3].reverted /\ sent[3].call.entrypoint = "register_keys"
  /\ sent[3].call.caller = sent[1].call.caller
  /\ sent[3].call.calldata[1] # 0 /\ sent[3].call.calldata[2] = 0
  /\ get_meta_address(storage, sent[1].call.caller) = sent[1].call.calldata
  /\ Len(events) = 2

\* calls are the transfer and the announce of one payment to stealthResult
CallsOf(tokenAddress, amount, stealthResult, metadata, calls) ==
  /\ Len(calls) = 2
  /\ calls[1].contractAddress = tokenAddress
  /\ calls[1].entrypoint = "transfer"
  /\ Len(calls[1].calldata) = 3
  /\ calls[1].calldata[1] = HexNumber(stealthResult.stealthAddress)
  /\ calls[1].calldata[2] < UINT128
  /\ calls[1].calldata[3] < UINT128
  /\ calls[1].calldata[2] + UINT128 * calls[1].calldata[3] = amount
  /\ calls[2].contractAddress = AMORA_ADDRESS
  /\ calls[2].entrypoint = "announce"
  /\ calls[2].calldata = <<HexNumber(stealthResult.stealthAddress), stealthResult.ephemeralPubKey,
                            stealthResult.viewTag, 2 + Len(metadata),
                            HexNumber(tokenAddress), amount>> \o metadata

\* C19: buildSendCalls returns exactly two calls, the token transfer to the
\* stealth address with the amount split into a low and a high half below
\* 2^128 that add up to the amount, then the registry's announce with the
\* stealth address, the ephemeral key, the view tag and the metadata that
\* starts with the token address and the amount
C19_SendCalls ==
  applied.op = "buildSendCalls" =>
    CallsOf(applied.tokenAddress, applied.amount, applied.stealthResult, applied.metadata,
            applied.calls)

C19_Witness ==
  /\ applied.op = "buildSendCalls"
  /\ applied.amount >= UINT128
  /\ applied.amount % UINT128 # applied.amount \div UINT128
  /\ applied.metadata # <<>>
  /\ applied.calls[1].calldata[3] > 0

\* payment i of a batch is made out to the recipient of its meta-address:
\* that recipient's keys find the stealth public key in the result
MadeOutTo(payment, stealthResult) ==
  \E id \in Recipients :
    /\ payment.metaAddress = encodeMetaAddress(PayeeKeys[id])
    /\ stealthResult.stealthPubKey =
         computeStealthPublicKey(PayeeKeys[id].spendingKey.publicKey,
                                 ecdh(PayeeKeys[id].viewingKey.privateKey,
                                      stealthResult.ephemeralPubKey))

\* C20: a batch of n payments gives 2n calls and n stealth results, calls
\* 2i and 2i+1 being the transfer and the announce of payment i built from
\* stealth result i, in the order of the payments, and batchSend submits
\* them all in one execute: one block holds the n announcements, in order
C20_BatchCalls ==
  (applied.op = "batchSend" /\ applied.built # ErrResult) =>
    LET n == Len(applied.payments)
        calls == applied.built.calls
        stealthResults == applied.built.stealthResults
    IN  /\ Len(calls) = 2 * n
        /\ Len(stealthResults) = n
        /\ \A i \in 1 .. n :
             /\ MadeOutTo(applied.payments[i], stealthResults[i])
             /\ CallsOf(applied.payments[i].tokenAddress, applied.payments[i].amount,
                        stealthResults[i], applied.payments[i].metadata,
                        SubSeq(calls, 2 * i - 1, 2 * i))
        /\ ~applied.reverted =>
             /\ Len(events) = n
             /\ \A i \in 1 .. n :
                  /\ events[i].block_number = 1
                  /\ events[i].name = "Announcement"
                  /\ events[i].keys = <<FeltToHex(HexNumber(stealthResults[i].stealthAddress))>>

C20_Witness ==
  /\ applied.op = "batchSend"
  /\ applied.built # ErrResult
  /\ ~applied.reverted
  /\ Len(applied.payments) = 2
  /\ applied.payments[1].metaAddress # applied.payments[2].metaAddress
  /\ applied.payments[1].amount # applied.payments[2].amount
  /\ Len(events) = 2

\* the three ways to ask whether an address is registered agree, and both
\* stored keys of the address are zero or both are not
RegistryConsistent(self) ==
  \A a \in ContractAddresses :
    /\ self.spending_keys[a] = 0 <=> self.viewing_keys[a] = 0
    /\ is_registered(self, a) <=> get_meta_address(self, a) # <<0, 0>>
    /\ is_registered(self, a) <=> getMetaAddress(self, a) # Null
    /\ isRegistered(self, a) <=> is_registered(self, a)

\* C30: in every state of the registry, after any register_keys and announce
\* calls by any callers, the stored spending key of an address is zero iff
\* its viewing key is zero, so is_registered, get_meta_address # (0, 0) and
\* a non-null getMetaAddress agree; and a registered address stays registered
C30_RegistryInvariant ==
  /\ [](RegistryConsistent(storage))
  /\ [][\A a \in ContractAddresses : is_registered(storage, a) => is_registered(storage', a)]_vars

\* A registers, B's registration with a zero key is reverted, A registers
\* other keys: A is registered with the new keys, B is not
C30_Witness ==
  /\ Len(sent) = 3
  /\ sent[1].call.caller = 5 /\ ~sent[1].reverted
  /\ sent[2].call.caller = 6 /\ sent[2].reverted /\ sent[2].call.entrypoint = "register_keys"
  /\ sent[3].call.caller = 5 /\ ~sent[3].reverted
  /\ sent[3].call.calldata # sent[1].call.calldata
  /\ is_registered(storage, 5)
  /\ ~is_registered(storage, 6)
  /\ getMetaAddress(storage, 6) = Null

\* C29: computeStealthPrivateKey(k_spend, s) is (k_spend + poseidon(s)) mod N
\* and a valid private key, above 0 and below N, for every spending private
\* key of [1, N-1] and every shared secret
C29_StealthPrivateKeyValid ==
  applied.op = "computeStealthPrivateKey" =>
    /\ applied.stealthPrivateKey =
         (applied.spendingPrivateKey + poseidonHash(<<applied.sharedSecret>>)) % CURVE_ORDER
    /\ applied.stealthPrivateKey > 0
    /\ applied.stealthPrivateKey < CURVE_ORDER

\* the number whose big-endian bytes are given, the last byte the units
RECURSIVE BigEndian(_)
BigEndian(bytes) ==
  IF bytes = <<>> THEN 0
  ELSE bytes[Len(bytes)] + 256 * BigEndian(SubSeq(bytes, 1, Len(bytes) - 1))

\* felts lay out bytes: the length, then one felt per BYTES_PER_FELT bytes
MemoLayout(bytes, felts) ==
  LET L == Len(bytes)
      chunks == (L + BYTES_PER_FELT - 1) \div BYTES_PER_FELT
      Last(i) == IF BYTES_PER_FELT * i < L THEN BYTES_PER_FELT * i ELSE L
  IN  /\ Len(felts) = 1 + chunks
      /\ felts[1] = L
      /\ \A i \in 1 .. chunks :
           /\ felts[i + 1] = BigEndian(SubSeq(bytes, BYTES_PER_FELT * (i - 1) + 1, Last(i)))
           /\ felts[i + 1] < 256 ^ BYTES_PER_FELT

\* C27: encodeMemo of a string of L UTF-8 bytes is 1 + ceil(L / BYTES_PER_FELT)
\* felts, the first L, felt i the bytes of chunk i big-endian and so below
\* 256 ^ BYTES_PER_FELT; the empty string encodes as [0]; decodeMemo of an
\* empty array fails
C27_MemoLayout ==
  /\ applied.op = "memo" =>
       /\ MemoLayout(TextEncode(applied.memo), applied.felts)
       /\ applied.memo = <<>> => applied.felts = <<0>>
  /\ (applied.op = "decodeMemo" /\ applied.felts = <<>>) => applied.decoded = ErrStr

\* seven bytes in three chunks, the first chunk beginning with a zero byte
C27_Witness ==
  /\ applied.op = "memo"
  /\ applied.memo = <<0, 233, 127775>>
  /\ applied.felts[1] = 7
  /\ Len(applied.felts) = 4

\* the events of the log the registry emitted as announcements in the blocks
\* of the range last fetched
AnnouncedInRange ==
  LET InRange(e) ==
        /\ e.name = "Announcement"
        /\ e.block_number >= scanned.fromBlock
        /\ scanned.toBlock = Latest \/ e.block_number <= scanned.toBlock.block_number
  IN  SelectSeq(events, InRange)

\* C24: fetchAnnouncements(from, to) returns an announcement for every
\* announcement event the registry emitted in the blocks from .. to, in the
\* order of the log, also when the events of the range fill more than one
\* page of the chain client
C24_FetchReturnsAllInRange ==
  scanned.kind = "fetch" =>
    /\ Len(scanned.result) = Len(AnnouncedInRange)
    /\ \A i \in 1 .. Len(scanned.result) :
         scanned.result[i].blockNumber = AnnouncedInRange[i].block_number

\* str is a literal BigInt reads: nothing, "0x" and hex digits, or decimal digits
IsBigIntLiteral(str) ==
  \/ str = <<>>
  \/ Len(str) > 2 /\ str[1] = "0" /\ str[2] = "x" /\ IsHex(str)
  \/ \A i \in 1 .. Len(str) : \E d \in 1 .. 10 : str[i] = HexDigits[d]

\* the number of metadata felts fetchAnnouncements reads from data
MetadataCount(data) ==
  LET metadata_len == IF Len(data) >= 5 /\ IsHex(data[5]) THEN HexNumber(data[5]) ELSE 0
      remaining == IF Len(data) > 5 THEN Len(data) - 5 ELSE 0
  IN  IF metadata_len < remaining THEN metadata_len ELSE remaining

\* an event with at least 4 data fields, all fields that are read numbers
WellFormed(event) ==
  /\ Len(event.data) >= 4
  /\ IsBigIntLiteral(event.data[3])
  /\ IsBigIntLiteral(event.data[4])
  /\ Len(event.data) >= 5 => IsBigIntLiteral(event.data[5])
  /\ \A i \in 1 .. MetadataCount(event.data) : IsBigIntLiteral(event.data[5 + i])

\* the first page of the events of the range last fetched
FetchedPage ==
  LET InRange(e) ==
        /\ e.block_number >= scanned.fromBlock
        /\ scanned.toBlock = Latest \/ e.block_number <= scanned.toBlock.block_number
      Page(matching) == SubSeq(matching, 1, IF Len(matching) < CHUNK_SIZE THEN Len(matching) ELSE CHUNK_SIZE)
  IN  Page(SelectSeq(events, InRange))

\* C23: fetchAnnouncements skips every event with fewer than 4 data fields
\* and every event with a field that cannot be parsed, and does not fail: the
\* other events of the response are all returned, in the response's order
C23_MalformedEventsSkipped ==
  scanned.kind = "fetch" =>
    LET kept == SelectSeq(FetchedPage, WellFormed)
    IN  /\ Len(scanned.result) = Len(kept)
        /\ \A i \in 1 .. Len(kept) : scanned.result[i].blockNumber = kept[i].block_number

\* a response of two events, the first with two data fields or a field that
\* is no number, the second well formed: only the second is returned
C23_Witness ==
  /\ scanned.kind = "fetch"
  /\ Len(FetchedPage) = 2
  /\ ~WellFormed(FetchedPage[1])
  /\ WellFormed(FetchedPage[2])
  /\ Len(scanned.result) = 1
  /\ scanned.result[1].blockNumber = FetchedPage[2].block_number

\* C28: for an event with at least 4 data fields fetchAnnouncements yields
\* stealthAddress = data[0], ephemeralPubKey = data[2], viewTag = data[3] and
\* as metadata the first min(metadata_len, data.length - 5) felts after index
\* 4, a missing metadata_len counting as 0; a metadata_len beyond the data
\* that remain is no error and reads nothing past the end
C28_EventFieldMapping ==
  scanned.kind = "fetch" =>
    \A i \in 1 .. Len(scanned.result) :
      \E j \in 1 .. Len(FetchedPage) :
        LET data == FetchedPage[j].data
            fetched == scanned.result[i]
        IN  /\ fetched.blockNumber = FetchedPage[j].block_number
            /\ Len(data) >= 4
            /\ fetched.stealthAddress = data[1]
            /\ fetched.ephemeralPubKey = HexNumber(data[3])
            /\ fetched.viewTag = HexNumber(data[4])
            /\ Len(fetched.metadata) = MetadataCount(data)
            /\ \A k \in 1 .. Len(fetched.metadata) : fetched.metadata[k] = HexNumber(data[5 + k])

\* an event whose metadata_len is 3 with one felt after it: one felt is read
C28_Witness ==
  /\ scanned.kind = "fetch"
  /\ Len(scanned.result) = 1
  /\ \E j \in 1 .. Len(FetchedPage) :
       /\ Len(FetchedPage[j].data) = 6
       /\ HexNumber(FetchedPage[j].data[5]) = 3
       /\ scanned.result[1].blockNumber = FetchedPage[j].block_number
       /\ scanned.result[1].metadata = <<4>>

\* the arrows of the per-announcement machine, and the throw of a curve failure
VerifyEdges ==
  {<<"INITIAL", "VIEW_TAG_CHECK">>, <<"VIEW_TAG_CHECK", "NO_MATCH">>,
   <<"VIEW_TAG_CHECK", "RECONSTRUCT_ADDRESS">>, <<"RECONSTRUCT_ADDRESS", "NO_MATCH">>,
   <<"RECONSTRUCT_ADDRESS", "MATCH">>, <<"RECONSTRUCT_ADDRESS", "DERIVE_SPENDING_KEY">>,
   <<"DERIVE_SPENDING_KEY", "MATCH">>,
   <<"INITIAL", "THROWN">>, <<"RECONSTRUCT_ADDRESS", "THROWN">>}

\* what the announcement in hand is, by recipient A's keys
VerifiedTagMatches ==
  computeViewTag(ecdh(PayeeKeys["A"].viewingKey.privateKey, applied.announcement.ephemeralPubKey))
    = applied.announcement.viewTag

VerifiedAddressMatches ==
  normalizeAddress(applied.expectedAddress) = normalizeAddress(applied.announcement.stealthAddress)

\* where an announcement may stand, and what has been computed there
VerifyStateOk ==
  applied.op = "verify" =>
    /\ applied.pc = "NO_MATCH" =>
         /\ applied.result = Null
         /\ applied.stealthPrivateKey = NotComputed
         /\ ~VerifiedTagMatches =>
              applied.stealthPubKey = NotComputed /\ applied.expectedAddress = Undefined
         /\ VerifiedTagMatches => ~VerifiedAddressMatches
    /\ applied.stealthPrivateKey # NotComputed =>
         /\ applied.mode = "full"
         /\ VerifiedTagMatches
         /\ VerifiedAddressMatches
    /\ applied.pc = "MATCH" =>
         /\ VerifiedTagMatches /\ VerifiedAddressMatches
         /\ applied.mode = "full" => applied.result.stealthPrivateKey = applied.stealthPrivateKey
    /\ applied.pc = "THROWN" => applied.result = ErrResult
    /\ applied.pc \in {"MATCH", "NO_MATCH", "THROWN"} =>
         applied.result =
           IF applied.mode = "full"
           THEN verifyAndComputeStealthKey(applied.announcement,
                                           PayeeKeys["A"].viewingKey.privateKey,
                                           PayeeKeys["A"].spendingKey.publicKey,
                                           PayeeKeys["A"].spendingKey.privateKey, ACCOUNT_CLASS_HASH)
           ELSE ViewingKeyStep(applied.announcement,
                               [viewingPrivateKey |-> PayeeKeys["A"].viewingKey.privateKey,
                                spendingPubKey |-> PayeeKeys["A"].spendingKey.publicKey],
                               ACCOUNT_CLASS_HASH)

RequestsOf(request) == {i \in 1 .. Len(sent) : sent[i].request = request}

\* the amount the transfer of a withdrawal has to carry
AmountToWithdraw ==
  IF applied.amount # All THEN applied.amount
  ELSE LET answer == sent[CHOOSE i \in RequestsOf("balanceOf") : TRUE].answer
       IN  IF answer.shape = "bigint" THEN answer.parts[1]
           ELSE answer.parts[1] + UINT128 * answer.parts[2]

\* the requests of a withdrawal so far are in the order of the operation
WithdrawOrderOk ==
  /\ \A i \in 1 .. (Len(sent) - 1) : sent[i].status # "pending"
  /\ Len(sent) >= 1 => sent[1].request = "getClassHashAt"
  /\ RequestsOf("getClassHashAt") \subseteq {1}
  /\ RequestsOf("deployAccount") \subseteq {2}
  /\ RequestsOf("deployAccount") # {} => ~(applied.alreadyDeployed /\ sent[1].status = "answered")
  /\ (Len(sent) >= 2 /\ sent[1].status = "answered" /\ ~applied.alreadyDeployed) =>
       sent[2].request = "deployAccount"
  /\ \A i \in RequestsOf("balanceOf") :
       /\ applied.amount = All
       /\ RequestsOf("balanceOf") = {i}
       /\ \A j \in RequestsOf("deployAccount") : j < i
  /\ \A i \in RequestsOf("execute") :
       /\ i = Len(sent)
       /\ applied.amount = All => RequestsOf("balanceOf") = {i - 1}
       /\ \A j \in 1 .. (i - 1) : sent[j].status = "answered" \/ j = 1
       /\ sent[i].calls =
            <<[contractAddress |-> TOKEN_ADDRESS, entrypoint |-> "transfer",
               calldata |-> <<HexNumber(DESTINATION_ADDRESS), AmountToWithdraw % UINT128,
                              AmountToWithdraw \div UINT128>>]>>
  /\ applied.pc = "RETURNED" =>
       /\ RequestsOf("execute") = {Len(sent)}
       /\ sent[Len(sent)].status = "answered"

SenderAddress ==
  computeStealthContractAddress(scalarBaseMult(applied.stealthPrivateKey), ACCOUNT_CLASS_HASH)

\* C22: the deployment has the configured class hash, salt x(p*G),
\* constructor calldata [x(p*G)] and deployer 0, the inputs of
\* computeStealthContractAddress, so that the account is deployed at, and the
\* transfer executed from, the stealth address the sender computed for x(p*G)
C22_DeploymentInputs ==
  applied.op = "deployAndWithdraw" =>
    /\ \A i \in RequestsOf("deployAccount") :
         /\ sent[i].payload.classHash = ACCOUNT_CLASS_HASH
         /\ sent[i].payload.addressSalt = ToString10(scalarBaseMult(applied.stealthPrivateKey))
         /\ sent[i].payload.constructorCalldata = <<scalarBaseMult(applied.stealthPrivateKey)>>
         /\ DeployAccountAddress(sent[i].payload) = HexNumber(SenderAddress)
         /\ sent[i].account = SenderAddress
         /\ sent[i].status = "answered" => HexNumber(SenderAddress) \in applied.deployed
    /\ \A i \in RequestsOf("execute") :
         /\ sent[i].account = SenderAddress
         /\ sent[i].signer = ToString10(applied.stealthPrivateKey)
         /\ sent[i].status = "answered" => HexNumber(SenderAddress) \in applied.deployed

\* an account deployed by the withdrawal and the transfer executed from it
C22_Witness ==
  /\ applied.op = "deployAndWithdraw"
  /\ applied.pc = "RETURNED"
  /\ ~applied.alreadyDeployed
  /\ RequestsOf("deployAccount") = {2}
  /\ applied.deployed = {HexNumber(SenderAddress)}
  /\ sent[Len(sent)].account = SenderAddress

\* C25: an error of the chain client during deployAndWithdraw, the
\* deployment-status query included, fails the operation: the request that
\* failed is the last one made and the operation has thrown
C25_ChainErrorsSurface ==
  applied.op = "deployAndWithdraw" =>
    \A i \in 1 .. Len(sent) :
      sent[i].status = "failed" => (i = Len(sent) /\ applied.pc = "THROWN")
====
